---- MODULE Spec2Model ----
(***************************************************************************)
(* A model of the release-gen tool (tools/release-gen): the run that walks *)
(* a base and a new release tree, plans Delete / Patch / Add actions,      *)
(* stages the patch artifacts, writes manifest.json and packs both into    *)
(* the output tar, together with the manifest schema of                    *)
(* release_manifest.rs and its serde (JSON) serialization.                 *)
(***************************************************************************)
EXTENDS Integers, Sequences, FiniteSets, TLC

\* ------------------------------------------------------------------------
\* Values shared by the whole model
\* ------------------------------------------------------------------------

\* An optional value (a file or directory that may not exist, a directory
\* argument that may not be readable): None, or Some(v) holding v.
None == <<>>
Some(v) == <<v>>

Min(a, b) == IF a < b THEN a ELSE b

Range(s) == {s[k] : k \in 1..Len(s)}

\* All orderings of a finite set, as sequences without repetition.
Perms(S) ==
    {s \in [1..Cardinality(S) -> S] : \A i, j \in 1..Cardinality(S) : s[i] = s[j] => i = j}

\* ------------------------------------------------------------------------
\* Paths.  A path is the sequence of its components; join appends,
\* strip_prefix removes a leading root, to_str renders with "/".
\* ------------------------------------------------------------------------

PathJoin(dir, rel) == dir \o rel

StripPrefix(path, prefix) == SubSeq(path, Len(prefix) + 1, Len(path))

RECURSIVE PathToStr(_)
PathToStr(path) ==
    IF path = <<>> THEN ""
    ELSE IF Len(path) = 1 THEN path[1]
    ELSE path[1] \o "/" \o PathToStr(Tail(path))

\* ------------------------------------------------------------------------
\* Directory trees on disk.  A directory is the sequence of its entries in
\* the order read_dir yields them; an entry is a regular file with its
\* bytes, a subdirectory with its own entries, or a symbolic link.
\* ------------------------------------------------------------------------

FileEntry(n, bytes) == [name |-> n, kind |-> "file", data |-> bytes, entries |-> <<>>]
DirEntry(n, es)     == [name |-> n, kind |-> "dir", data |-> <<>>, entries |-> es]
LinkEntry(n)        == [name |-> n, kind |-> "symlink", data |-> <<>>, entries |-> <<>>]

\* A symbolic link together with the entry it points to (a regular file or
\* a directory); LinkEntry alone is a link whose target does not exist.
LinkTo(n, target) == [LinkEntry(n) EXCEPT !.entries = <<target>>]

\* A walk that reads the metadata of a link's target: a link to a file is
\* reported and a link to a directory is descended into.
RECURSIVE rec_follow_links(_, _)
rec_follow_links(dirPath, dir) ==
    IF dir = <<>> THEN <<>>
    ELSE LET entry == Head(dir)
             path  == PathJoin(dirPath, <<entry.name>>)
             seen  == IF entry.kind = "symlink" /\ entry.entries # <<>>
                      THEN entry.entries[1] ELSE entry
             here  == IF seen.kind = "symlink" THEN <<>>
                      ELSE IF seen.kind = "file" THEN <<path>>
                      ELSE rec_follow_links(path, seen.entries)
         IN  here \o rec_follow_links(dirPath, Tail(dir))

\* rec_get_all_files_in_tree: the full paths of the regular files below
\* dirPath, in enumeration order; symbolic links are skipped, directories
\* are descended into.
RECURSIVE rec_get_all_files_in_tree(_, _)
rec_get_all_files_in_tree(dirPath, dir) ==
    IF dir = <<>> THEN <<>>
    ELSE LET entry == Head(dir)
             path  == PathJoin(dirPath, <<entry.name>>)
             here  == IF entry.kind = "symlink" THEN <<>>
                      ELSE IF entry.kind = "file" THEN <<path>>
                      ELSE rec_get_all_files_in_tree(path, entry.entries)
         IN  here \o rec_get_all_files_in_tree(dirPath, Tail(dir))

\* The regular file at relative path rel below a directory, Some(bytes), or
\* None (the path is resolved component by component).
RECURSIVE ReadFile(_, _)
ReadFile(dir, rel) ==
    LET hits == {k \in 1..Len(dir) : dir[k].name = rel[1]}
        e    == dir[CHOOSE k \in hits : TRUE]
    IN  IF hits = {} THEN None
        ELSE IF Len(rel) = 1 THEN (IF e.kind = "file" THEN Some(e.data) ELSE None)
        ELSE IF e.kind = "dir" THEN ReadFile(e.entries, Tail(rel))
        ELSE None

\* ------------------------------------------------------------------------
\* files_are_same
\* ------------------------------------------------------------------------

\* Size of the two read buffers.
BufLen == 1024

\* What one read call returns at offset pos: at most the buffer, at most
\* what is left, and at most `limit` (the size of a short read).
ReadLen(file, pos, limit) == Min(Min(BufLen, limit), Len(file) - pos)

\* The k-th read of a stream whose short reads are given by rs; reads past
\* the end of rs fill the buffer, as reads of a regular file do.
ReadLimit(rs, k) == IF k <= Len(rs) THEN rs[k] ELSE BufLen

\* The comparison loop: both files are read chunk by chunk; the loop ends
\* with "same" when the first file is at end of input and with "differ" at
\* the first pair of chunks that are not equal.
RECURSIVE CompareChunks(_, _, _, _, _, _, _)
CompareChunks(f1, f2, pos1, pos2, k, rs1, rs2) ==
    LET bytes_read1 == ReadLen(f1, pos1, ReadLimit(rs1, k))
        bytes_read2 == ReadLen(f2, pos2, ReadLimit(rs2, k))
        chunk1 == SubSeq(f1, pos1 + 1, pos1 + bytes_read1)
        chunk2 == SubSeq(f2, pos2 + 1, pos2 + bytes_read2)
    IN  IF bytes_read1 = 0 THEN TRUE
        ELSE IF chunk1 # chunk2 THEN FALSE
        ELSE CompareChunks(f1, f2, pos1 + bytes_read1, pos2 + bytes_read2, k + 1, rs1, rs2)

\* A comparison that trusts the sizes and reads no content.
files_are_same_by_size(f1, f2, rs1, rs2) == Len(f1) = Len(f2)

\* files_are_same on two files' bytes; rs1 and rs2 are the short reads the
\* two streams take (<<>>: every read fills the buffer).
files_are_same(f1, f2, rs1, rs2) ==
    IF Len(f1) # Len(f2) THEN FALSE
    ELSE CompareChunks(f1, f2, 0, 0, 1, rs1, rs2)

\* ------------------------------------------------------------------------
\* The manifest schema (release_manifest.rs) and its JSON form.
\*
\* A Rust value of type Action is a record with its variant's name and the
\* variant's fields.  A JSON object is the sequence of its members, each a
\* pair <<key, value>>, in the order the serializer writes them; a JSON
\* array is the sequence of its elements.
\* ------------------------------------------------------------------------

Transaction(actions) == [variant |-> "Transaction", actions |-> actions]
Patch(patch_file, patch_source, base_version, new_version) ==
    [variant |-> "Patch", patch_file |-> patch_file, patch_source |-> patch_source,
     base_version |-> base_version, new_version |-> new_version]
PatchAdd(patch_file, patch_source, dest, base_version, new_version) ==
    [variant |-> "PatchAdd", patch_file |-> patch_file, patch_source |-> patch_source,
     dest |-> dest, base_version |-> base_version, new_version |-> new_version]
Add(source, dest) == [variant |-> "Add", source |-> source, dest |-> dest]
Replace(source, dest, new_version) ==
    [variant |-> "Replace", source |-> source, dest |-> dest, new_version |-> new_version]
UpdateBt == [variant |-> "UpdateBt"]
Delete(path) == [variant |-> "Delete", path |-> path]
Rename(source, dest) == [variant |-> "Rename", source |-> source, dest |-> dest]
Move(source, dest) == [variant |-> "Move", source |-> source, dest |-> dest]
Copy(source, dest) == [variant |-> "Copy", source |-> source, dest |-> dest]
Set(setting, value) == [variant |-> "Set", setting |-> setting, value |-> value]
OpenApp(app_id, route) == [variant |-> "OpenApp", app_id |-> app_id, route |-> route]

\* The variants of Action with their fields, in declaration order.
VariantFields ==
    [Transaction |-> <<"actions">>,
     Patch       |-> <<"patch_file", "patch_source", "base_version", "new_version">>,
     PatchAdd    |-> <<"patch_file", "patch_source", "dest", "base_version", "new_version">>,
     Add         |-> <<"source", "dest">>,
     Replace     |-> <<"source", "dest", "new_version">>,
     UpdateBt    |-> <<>>,
     Delete      |-> <<"path">>,
     Rename      |-> <<"source", "dest">>,
     Move        |-> <<"source", "dest">>,
     Copy        |-> <<"source", "dest">>,
     Set         |-> <<"setting", "value">>,
     OpenApp     |-> <<"app_id", "route">>]

Variants == DOMAIN VariantFields

\* The variants that carry their own #[serde(rename_all = "kebab-case")];
\* the enum's rename_all renames the variant names only.
FieldRenameAll == {"Patch", "PatchAdd", "Replace", "OpenApp"}

\* The words of the identifiers of the schema (a variant name splits at its
\* capitals, a field name at its underscores).
IdentWords ==
    [Transaction |-> <<"transaction">>, Patch |-> <<"patch">>,
     PatchAdd |-> <<"patch", "add">>, Add |-> <<"add">>, Replace |-> <<"replace">>,
     UpdateBt |-> <<"update", "bt">>, Delete |-> <<"delete">>, Rename |-> <<"rename">>,
     Move |-> <<"move">>, Copy |-> <<"copy">>, Set |-> <<"set">>,
     OpenApp |-> <<"open", "app">>,
     actions |-> <<"actions">>, patch_file |-> <<"patch", "file">>,
     patch_source |-> <<"patch", "source">>, base_version |-> <<"base", "version">>,
     new_version |-> <<"new", "version">>, dest |-> <<"dest">>, source |-> <<"source">>,
     path |-> <<"path">>, setting |-> <<"setting">>, value |-> <<"value">>,
     app_id |-> <<"app", "id">>, route |-> <<"route">>,
     label |-> <<"label">>, mandatory |-> <<"mandatory">>, date |-> <<"date">>,
     signature |-> <<"signature">>]

RECURSIVE JoinWords(_, _)
JoinWords(words, sep) ==
    IF Len(words) = 1 THEN words[1]
    ELSE words[1] \o sep \o JoinWords(Tail(words), sep)

\* serde's kebab-case rule, and the name a field keeps without a rule.
KebabCase(ident) == JoinWords(IdentWords[ident], "-")
SnakeCase(ident) == JoinWords(IdentWords[ident], "_")

\* A tag key that is also the name of a field of Transaction.
ActionTagClash == "actions"

\* #[serde(tag = "action")]: the key of the discriminant.
ActionTag == "action"

\* The wire name of a variant and of a variant's field.
VariantWire(variant) == KebabCase(variant)
FieldWire(variant, f) ==
    IF variant \in FieldRenameAll THEN KebabCase(f) ELSE SnakeCase(f)

\* Serialize for Action (derived): the tag first, then the fields in
\* declaration order; a Transaction's actions serialize recursively.
RECURSIVE SerializeAction(_)
SerializeAction(a) ==
    LET fs == VariantFields[a.variant]
    IN  << <<ActionTag, VariantWire(a.variant)>> >> \o
        [k \in 1..Len(fs) |->
            << FieldWire(a.variant, fs[k]),
               IF fs[k] = "actions"
               THEN [n \in 1..Len(a.actions) |-> SerializeAction(a.actions[n])]
               ELSE a[fs[k]] >>]

SerializeActions(actions) == [n \in 1..Len(actions) |-> SerializeAction(actions[n])]

\* The members of a JSON object with a given key.
Members(obj, key) == {k \in 1..Len(obj) : obj[k][1] = key}
Member(obj, key) == obj[CHOOSE k \in Members(obj, key) : TRUE][2]

\* The failed result of a deserialization.
Err == [ok |-> FALSE]
Ok(v) == [ok |-> TRUE, val |-> v]

\* A struct (or struct variant) read with deny_unknown_fields: every key is
\* one of the wire names, none twice, none missing.
FieldsAccepted(obj, wires) ==
    /\ \A k \in 1..Len(obj) : obj[k][1] \in wires
    /\ \A w \in wires : Cardinality(Members(obj, w)) = 1

\* Deserialize for Action (derived, internally tagged): the tag selects the
\* variant, the other members are the variant's fields.
RECURSIVE DeserializeAction(_)
DeserializeAction(obj) ==
    IF Cardinality(Members(obj, ActionTag)) # 1 THEN Err
    ELSE LET tag  == Member(obj, ActionTag)
             hit  == {v \in Variants : VariantWire(v) = tag}
             v    == CHOOSE x \in hit : TRUE
             fs   == VariantFields[v]
             rest == SelectSeq(obj, LAMBDA m : m[1] # ActionTag)
             sub  == [n \in 1..Len(Member(rest, FieldWire(v, "actions"))) |->
                         DeserializeAction(Member(rest, FieldWire(v, "actions"))[n])]
         IN  IF hit = {} THEN Err
             ELSE IF fs = <<>> THEN Ok([variant |-> v])
             ELSE IF ~FieldsAccepted(rest, {FieldWire(v, f) : f \in Range(fs)}) THEN Err
             ELSE IF v = "Transaction"
             THEN (IF \A n \in DOMAIN sub : sub[n].ok
                   THEN Ok(Transaction([n \in DOMAIN sub |-> sub[n].val]))
                   ELSE Err)
             ELSE Ok([f \in Range(fs) \cup {"variant"} |->
                        IF f = "variant" THEN v ELSE Member(rest, FieldWire(v, f))])

DeserializeActions(arr) ==
    LET sub == [n \in 1..Len(arr) |-> DeserializeAction(arr[n])]
    IN  IF \A n \in DOMAIN sub : sub[n].ok THEN Ok([n \in DOMAIN sub |-> sub[n].val])
        ELSE Err

\* struct ReleaseManifest of release_manifest.rs, in declaration order.
ManifestFields == <<"label", "mandatory", "date", "actions">>

\* Serialize for ReleaseManifest (derived, rename_all = "kebab-case").
SerializeManifest(m) ==
    [k \in 1..Len(ManifestFields) |->
        << KebabCase(ManifestFields[k]),
           IF ManifestFields[k] = "actions" THEN SerializeActions(m.actions)
           ELSE m[ManifestFields[k]] >>]

\* Deserialize for ReleaseManifest (derived, deny_unknown_fields).
DeserializeManifest(obj) ==
    IF ~FieldsAccepted(obj, {KebabCase(f) : f \in Range(ManifestFields)}) THEN Err
    ELSE LET acts == DeserializeActions(Member(obj, KebabCase("actions")))
         IN  IF ~acts.ok THEN Err
             ELSE Ok([label |-> Member(obj, KebabCase("label")),
                      mandatory |-> Member(obj, KebabCase("mandatory")),
                      date |-> Member(obj, KebabCase("date")),
                      actions |-> acts.val])

\* ------------------------------------------------------------------------
\* The run of release-gen (main.rs)
\* ------------------------------------------------------------------------

\* The manifest as run serializes it: the signature, then the signed data
\* (label, mandatory, date, actions), one JSON object with kebab-case keys.
SerializeSigned(m) ==
    << <<KebabCase("signature"), m.signature>>,
       <<KebabCase("label"), m.signed_data.label>>,
       <<KebabCase("mandatory"), m.signed_data.mandatory>>,
       <<KebabCase("date"), m.signed_data.date>>,
       <<KebabCase("actions"), SerializeActions(m.signed_data.actions)>> >>

\* The two runs of the model.  Run 2 is a second invocation of the tool:
\* after run 1 has ended, or (concurrent) at any time.
Procs == {1, 2}

\* args.base and args.new, and the version labels of the two trees.
BaseRoot == <<"base">>
NewRoot == <<"new">>
BaseVersion == "v0.0.1"
NewVersion == "v0.0.2"

\* The values of --label, --mandatory and --out; the output directory is the parent
\* of the tar, and manifest.json and patch/ are created next to the tar.
DefaultLabel == "KeyOS Release"
CommandLines == {[label |-> DefaultLabel, mandatory |-> FALSE],
                 [label |-> "test label", mandatory |-> TRUE]}
DefaultOut == "release.tar"
TarNames == {DefaultOut, "other.tar"}
ManifestName == "manifest.json"
PatchDirName == "patch"

\* String::from("deadbeef")
SignaturePlaceholder == "deadbeef"

\* chrono::Utc::now().date_naive().to_string()
Today == "2026-01-01"

\* File contents of the trees the model explores, per file: bytes 1 and
\* 2, so that a file of both trees is equal, differs at equal size, or
\* differs in size in the two.
BaseContents == [a |-> {<<1>>, <<1, 2>>}, b |-> {<<1>>}, c |-> {<<1>>}]
NewContents == [a |-> {<<1>>, <<2>>}, b |-> {<<1>>, <<2>>}, c |-> {<<1>>}]

\* The trees over files a, b and d/c, each present or not, in every
\* enumeration order of the root directory.
TreeNames == {"a", "b", "c"}
TopEntries(m) ==
    {FileEntry(n, m[n][1]) : n \in {x \in {"a", "b"} : m[x] # None}}
    \cup (IF m["c"] # None THEN {DirEntry("d", <<FileEntry("c", m["c"][1])>>)} ELSE {})
FileMaps(contents) ==
    {m \in [TreeNames -> {None} \cup UNION {{Some(c) : c \in contents[n]} : n \in TreeNames}] :
        \A n \in TreeNames : m[n] # None => m[n][1] \in contents[n]}
TreesOver(contents) == UNION {Perms(TopEntries(m)) : m \in FileMaps(contents)}

\* What a previous use of the output directory may have left behind.
OldManifest == << <<"label", "old">> >>
OldStaged == [n \in {"old.bin"} |-> <<1>>]
OldTar == [members |-> [n \in {ManifestName} |-> [size |-> 1, data |-> OldManifest]],
           finished |-> TRUE]
EmptyOutDir == [dir |-> TRUE, tars |-> [n \in TarNames |-> None],
                manifest |-> None, patch |-> None]
OutDirs ==
    {[EmptyOutDir EXCEPT !.dir = FALSE]} \cup
    {[EmptyOutDir EXCEPT !.tars[DefaultOut] = t, !.manifest = m, !.patch = d] :
        t \in {None, Some(OldTar)}, m \in {None, Some(OldManifest)},
        d \in {None, Some(OldStaged)}}

\* What the updiff tool writes to the patch path for a base and a new file:
\* its header (byte 0) and a delta that determines the new bytes.
UpdiffOutput(baseBytes, newBytes) == <<0>> \o baseBytes \o <<0>> \o newBytes

VARIABLES
    src,        \* the input trees: src.base, src.new (None: unreadable)
    fs,         \* the output directory: dir, tars, manifest, patch
    updiff,     \* the updiff tool: installed, running children, calls made
    concurrent, \* whether run 2 may start before run 1 has ended
    st,         \* per run: its arguments, position and local variables
    rt,         \* a manifest value on its way through serde_json and back
    cmp,        \* a call of files_are_same: its two files and its position
    sg,         \* the signer: a version folder and the last command run on it
    img         \* the image builder: its inputs, position and the disk image

vars == <<src, fs, updiff, concurrent, st, rt, cmp, sg, img>>

\* No manifest value is under way.
RtIdle == [pc |-> "idle", value |-> None, json |-> <<>>, back |-> Err]

\* The signer has no version folder to work on.
SgIdle ==
    [folder |-> FALSE, app_bin |-> None, manifest |-> None, apps |-> None, tar |-> None,
     last |-> [cmd |-> "none", result |-> "none", allow_one_signature |-> FALSE,
               signs |-> 0, wrote_manifest |-> FALSE, wrote_tar |-> FALSE]]

\* The image builder is not run.
ImgIdle ==
    [pc |-> "idle", result |-> "none", folder |-> None, image |-> None]

\* No call of files_are_same is under way.
CmpIdle ==
    [pc |-> "idle", file1 |-> <<>>, file2 |-> <<>>, rs1 |-> <<>>, rs2 |-> <<>>,
     opened |-> FALSE, reads |-> 0, k |-> 1, pos1 |-> 0, pos2 |-> 0, result |-> None]

\* A run before its first step.
NewRun(label, mandatory, out) ==
    [pc |-> "start", result |-> "running",
     label |-> label, mandatory |-> mandatory, out |-> out,
     fs0 |-> EmptyOutDir,            \* the output directory when run started
     guard |-> FALSE,                \* _guard is constructed and not dropped
     base_src_files |-> <<>>, new_src_files |-> <<>>,
     i |-> 1,                        \* position of the running for loop
     actions |-> <<>>,
     manifest |-> None,              \* the ReleaseManifest value built
     manifest_pos |-> 0,             \* cursor of the manifest_file handle
     written |-> None]               \* what write_all wrote to manifest.json

InitCommon ==
    /\ src \in [base : {None} \cup {Some(t) : t \in TreesOver(BaseContents)},
                new  : {None} \cup {Some(t) : t \in TreesOver(NewContents)}]
    /\ fs \in OutDirs
    /\ updiff \in [installed : BOOLEAN, probes : {0}, running : {{}},
                    calls : {<<>>}, exits : {<<>>}]

\* Run 2 repeats run 1's command line once run 1 has ended.
Init ==
    /\ InitCommon
    /\ concurrent = FALSE
    /\ \E args \in CommandLines :
          st = [p \in Procs |-> NewRun(args.label, args.mandatory, DefaultOut)]
    /\ rt = RtIdle
    /\ cmp = CmpIdle
    /\ sg = SgIdle
    /\ img = ImgIdle

\* The run ends: with the guard constructed the return unwinds through its
\* drop, otherwise nothing is left to run.
Return(r, result) ==
    [r EXCEPT !.result = result, !.pc = IF r.guard THEN "drop_guard" ELSE "done"]

\* main.rs 58-66: the tool is run once without arguments to see that it
\* can be found.
Probe(p) ==
    /\ st[p].pc = "start"
    /\ p = 1 \/ concurrent \/ st[1].pc = "done"
    /\ updiff' = [updiff EXCEPT !.probes = @ + 1]
    /\ st' = [st EXCEPT ![p] =
                IF updiff.installed
                THEN [@ EXCEPT !.pc = "create_out_dir", !.fs0 = fs]
                ELSE [Return(@, "err_updiff_not_found") EXCEPT !.fs0 = fs]]
    /\ UNCHANGED <<src, fs, concurrent, rt, cmp, sg, img>>

\* main.rs 68-72: create_dir_all of the tar's parent directory.
CreateOutDir(p) ==
    /\ st[p].pc = "create_out_dir"
    /\ fs' = [fs EXCEPT !.dir = TRUE]
    /\ st' = [st EXCEPT ![p].pc = "create_tar"]
    /\ UNCHANGED <<src, updiff, concurrent, rt, cmp, sg, img>>

\* The tar opened with File::create, which truncates a tar that exists.
CreateTarTruncating(p) ==
    /\ st[p].pc = "create_tar"
    /\ fs' = [fs EXCEPT !.tars[st[p].out] = Some([members |-> <<>>, finished |-> FALSE])]
    /\ st' = [st EXCEPT ![p].pc = "read_dirs"]
    /\ UNCHANGED <<src, updiff, concurrent, rt, cmp, sg, img>>

\* main.rs 73-78: File::create_new of the tar; bail if it cannot be
\* created because it exists.
CreateTar(p) ==
    /\ st[p].pc = "create_tar"
    /\ IF fs.tars[st[p].out] # None
       THEN /\ st' = [st EXCEPT ![p] = Return(@, "err_tar_exists")]
            /\ UNCHANGED fs
       ELSE /\ fs' = [fs EXCEPT !.tars[st[p].out] =
                        Some([members |-> <<>>, finished |-> FALSE])]
            /\ st' = [st EXCEPT ![p].pc = "read_dirs"]
    /\ UNCHANGED <<src, updiff, concurrent, rt, cmp, sg, img>>

\* main.rs 80-83: read_dir of the base and of the new directory.
ReadDirs(p) ==
    /\ st[p].pc = "read_dirs"
    /\ st' = [st EXCEPT ![p] =
                IF src.base = None THEN Return(@, "err_read_base")
                ELSE IF src.new = None THEN Return(@, "err_read_new")
                ELSE [@ EXCEPT !.pc = "create_patch_dir"]]
    /\ UNCHANGED <<src, fs, updiff, concurrent, rt, cmp, sg, img>>

\* main.rs 85-89: create_dir of the patch directory (fails if it exists).
CreatePatchDir(p) ==
    /\ st[p].pc = "create_patch_dir"
    /\ IF fs.patch # None
       THEN /\ st' = [st EXCEPT ![p] = Return(@, "err_patch_dir")]
            /\ UNCHANGED fs
       ELSE /\ fs' = [fs EXCEPT !.patch = Some(<<>>)]
            /\ st' = [st EXCEPT ![p].pc = "create_manifest"]
    /\ UNCHANGED <<src, updiff, concurrent, rt, cmp, sg, img>>

\* main.rs 90-96: File::create_new of manifest.json, which panics if the
\* file exists, and the construction of the cleanup guard.
CreateManifest(p) ==
    /\ st[p].pc = "create_manifest"
    /\ IF fs.manifest # None
       THEN /\ st' = [st EXCEPT ![p] = Return(@, "panic_manifest_exists")]
            /\ UNCHANGED fs
       ELSE /\ fs' = [fs EXCEPT !.manifest = Some(<<>>)]
            /\ st' = [st EXCEPT ![p] = [@ EXCEPT !.pc = "walk", !.guard = TRUE,
                                                 !.manifest_pos = 0]]
    /\ UNCHANGED <<src, updiff, concurrent, rt, cmp, sg, img>>

\* The walked files of a tree as paths relative to its root.
RelativeFiles(root, tree) ==
    LET files == rec_get_all_files_in_tree(root, tree)
    IN  [k \in 1..Len(files) |-> StripPrefix(files[k], root)]

\* main.rs 98-117: both trees are walked and the prefixes stripped.
Walk(p) ==
    /\ st[p].pc = "walk"
    /\ st' = [st EXCEPT ![p] =
                [@ EXCEPT !.base_src_files = RelativeFiles(BaseRoot, src.base[1]),
                          !.new_src_files = RelativeFiles(NewRoot, src.new[1]),
                          !.actions = <<>>, !.i = 1, !.pc = "loop_base"]]
    /\ UNCHANGED <<src, fs, updiff, concurrent, rt, cmp, sg, img>>

\* An insertion at the front of the list instead of a push at its end.
PushFront(actions, action) == <<action>> \o actions

\* Vec::push
Push(actions, action) == Append(actions, action)

\* Vec::contains
Contains(files, file) == file \in Range(files)

\* The bytes of the file below the base and below the new root.
BaseBytes(file) == ReadFile(src.base[1], file)[1]
NewBytes(file) == ReadFile(src.new[1], file)[1]

\* A file created in the patch directory that stays empty, whatever is
\* written to it.
StagedEmpty(file, bytes) ==
    LET name == PathToStr(file)
        old  == IF fs.patch = None THEN <<>> ELSE fs.patch[1]
    IN  Some([n \in DOMAIN old \cup {name} |-> IF n = name THEN <<>> ELSE old[n]])

\* A file created or rewritten in the patch directory; create_dir_all
\* makes the directories on the way, the patch directory included.
Staged(file, bytes) ==
    LET name == PathToStr(file)
        old  == IF fs.patch = None THEN <<>> ELSE fs.patch[1]
    IN  Some([n \in DOMAIN old \cup {name} |-> IF n = name THEN bytes ELSE old[n]])

IsStaged(file) == fs.patch # None /\ PathToStr(file) \in DOMAIN fs.patch[1]

\* main.rs 119: the loop over base_src_files.
InBaseLoop(p) == st[p].pc = "loop_base" /\ st[p].i <= Len(st[p].base_src_files)
base_file(p) == st[p].base_src_files[st[p].i]

\* The test of main.rs 120: the base file is not a file of the new tree.
IsDeleted(p, file) == ~Contains(st[p].new_src_files, file)

\* A Delete that is put at either end of the list, as a collection without
\* a fixed order would.
PlanDeleteUnordered(p) ==
    /\ InBaseLoop(p)
    /\ IsDeleted(p, base_file(p))
    /\ \E front \in BOOLEAN :
          st' = [st EXCEPT ![p] =
                   [@ EXCEPT !.actions = IF front
                                         THEN <<Delete(PathToStr(base_file(p)))>> \o @
                                         ELSE Push(@, Delete(PathToStr(base_file(p)))),
                             !.i = @ + 1]]
    /\ UNCHANGED <<src, fs, updiff, concurrent, rt, cmp, sg, img>>

\* main.rs 120-122: a base file that the new tree does not have.
PlanDelete(p) ==
    /\ InBaseLoop(p)
    /\ IsDeleted(p, base_file(p))
    /\ st' = [st EXCEPT ![p] =
                [@ EXCEPT !.actions = Push(@, Delete(PathToStr(base_file(p)))),
                          !.i = @ + 1]]
    /\ UNCHANGED <<src, fs, updiff, concurrent, rt, cmp, sg, img>>

\* main.rs 123-127: a file of both trees is compared; every read of the
\* two regular files fills its buffer.
Compare(p) ==
    /\ InBaseLoop(p)
    /\ ~IsDeleted(p, base_file(p))
    /\ st' = [st EXCEPT ![p] =
                IF files_are_same(BaseBytes(base_file(p)), NewBytes(base_file(p)), <<>>, <<>>)
                THEN [@ EXCEPT !.i = @ + 1]
                ELSE [@ EXCEPT !.pc = "placeholder"]]
    /\ UNCHANGED <<src, fs, updiff, concurrent, rt, cmp, sg, img>>

\* The step to the diff without the patch file being created first.
CreatePlaceholderSkipped(p) ==
    /\ st[p].pc = "placeholder"
    /\ st' = [st EXCEPT ![p].pc = "spawn"]
    /\ UNCHANGED <<src, fs, updiff, concurrent, rt, cmp, sg, img>>

\* main.rs 128-135: the parent directories and the empty patch file are
\* created; create_new fails if the patch file exists.
CreatePlaceholder(p) ==
    /\ st[p].pc = "placeholder"
    /\ IF IsStaged(base_file(p))
       THEN /\ st' = [st EXCEPT ![p] = Return(@, "err_patch_file")]
            /\ UNCHANGED fs
       ELSE /\ fs' = [fs EXCEPT !.patch = Staged(base_file(p), <<>>)]
            /\ st' = [st EXCEPT ![p].pc = "spawn"]
    /\ UNCHANGED <<src, updiff, concurrent, rt, cmp, sg, img>>

\* main.rs 137-143: updiff is started with the two versions, the two
\* files and the patch path.
SpawnUpdiff(p) ==
    /\ st[p].pc = "spawn"
    /\ updiff' = [updiff EXCEPT !.running = @ \cup {p},
                                !.calls = Append(@, [proc |-> p, file |-> base_file(p),
                                                     base_version |-> BaseVersion,
                                                     new_version |-> NewVersion])]
    /\ st' = [st EXCEPT ![p].pc = "await"]
    /\ UNCHANGED <<src, fs, concurrent, rt, cmp, sg, img>>

\* The Patch action of main.rs 151-158.
PatchAction(file) ==
    Patch(PathToStr(file), PathToStr(file), BaseVersion, NewVersion)

\* main.rs 143-158: output() returns when updiff has exited.  On success
\* updiff has written the patch and the Patch action is pushed.
UpdiffSucceeds(p) ==
    /\ st[p].pc = "await"
    /\ updiff' = [updiff EXCEPT !.running = @ \ {p},
                                !.exits = Append(@, [proc |-> p, file |-> base_file(p),
                                                     status |-> 0])]
    /\ fs' = [fs EXCEPT !.patch =
                Staged(base_file(p),
                       UpdiffOutput(BaseBytes(base_file(p)), NewBytes(base_file(p))))]
    /\ st' = [st EXCEPT ![p] =
                [@ EXCEPT !.actions = Push(@, PatchAction(base_file(p))),
                          !.i = @ + 1, !.pc = "loop_base"]]
    /\ UNCHANGED <<src, concurrent, rt, cmp, sg, img>>

\* A non-zero exit of updiff that is passed over: the loop goes on with
\* the next base file.
UpdiffFailsIgnored(p) ==
    /\ st[p].pc = "await"
    /\ updiff' = [updiff EXCEPT !.running = @ \ {p},
                                !.exits = Append(@, [proc |-> p, file |-> base_file(p),
                                                     status |-> 1])]
    /\ st' = [st EXCEPT ![p] = [@ EXCEPT !.i = @ + 1, !.pc = "loop_base"]]
    /\ UNCHANGED <<src, fs, concurrent, rt, cmp, sg, img>>

\* main.rs 146-149: updiff exited non-zero; std::process::exit(1) ends
\* the process at once, without running any destructor.
UpdiffFails(p) ==
    /\ st[p].pc = "await"
    /\ updiff' = [updiff EXCEPT !.running = @ \ {p},
                                !.exits = Append(@, [proc |-> p, file |-> base_file(p),
                                                     status |-> 1])]
    /\ st' = [st EXCEPT ![p] = [@ EXCEPT !.result = "exit_updiff_failed", !.pc = "done"]]
    /\ UNCHANGED <<src, fs, concurrent, rt, cmp, sg, img>>

\* main.rs 119, 161: the loop over base_src_files is over.
EndBaseLoop(p) ==
    /\ st[p].pc = "loop_base"
    /\ st[p].i > Len(st[p].base_src_files)
    /\ st' = [st EXCEPT ![p] = [@ EXCEPT !.pc = "loop_new", !.i = 1]]
    /\ UNCHANGED <<src, fs, updiff, concurrent, rt, cmp, sg, img>>

\* main.rs 162: the loop over new_src_files.
InNewLoop(p) == st[p].pc = "loop_new" /\ st[p].i <= Len(st[p].new_src_files)
new_file(p) == st[p].new_src_files[st[p].i]

\* An Add whose source is the file's full path below the new root.
AddActionFullSource(file) == Add(PathToStr(PathJoin(NewRoot, file)), PathToStr(file))

\* The Add action of main.rs 184-187.
AddAction(file) == Add(PathToStr(file), PathToStr(file))

\* The test of main.rs 163 with its negation lost.
IsAddedInverted(p, file) == Contains(st[p].base_src_files, file)

\* The test of main.rs 163: the new file is not a file of the base tree.
IsAdded(p, file) == ~Contains(st[p].base_src_files, file)

\* main.rs 163-188: a new file that the base tree does not have is copied
\* into the patch directory and an Add is pushed.
PlanAdd(p) ==
    /\ InNewLoop(p)
    /\ IsAdded(p, new_file(p))
    /\ IF IsStaged(new_file(p))
       THEN /\ st' = [st EXCEPT ![p] = Return(@, "err_patch_file")]
            /\ UNCHANGED fs
       ELSE /\ fs' = [fs EXCEPT !.patch = Staged(new_file(p), NewBytes(new_file(p)))]
            /\ st' = [st EXCEPT ![p] =
                        [@ EXCEPT !.actions = Push(@, AddAction(new_file(p))),
                                  !.i = @ + 1]]
    /\ UNCHANGED <<src, updiff, concurrent, rt, cmp, sg, img>>

\* main.rs 163: a new file that the base tree has too.
SkipNew(p) ==
    /\ InNewLoop(p)
    /\ ~IsAdded(p, new_file(p))
    /\ st' = [st EXCEPT ![p].i = @ + 1]
    /\ UNCHANGED <<src, fs, updiff, concurrent, rt, cmp, sg, img>>

\* main.rs 162, 189: the loop over new_src_files is over.
EndNewLoop(p) ==
    /\ st[p].pc = "loop_new"
    /\ st[p].i > Len(st[p].new_src_files)
    /\ st' = [st EXCEPT ![p].pc = "write_manifest"]
    /\ UNCHANGED <<src, fs, updiff, concurrent, rt, cmp, sg, img>>

\* The planned actions as the manifest's top-level list, unwrapped.
WrapActionsBare(actions) == actions

\* main.rs 191: the planned actions wrapped in one Transaction.
WrapActions(actions) == <<Transaction(actions)>>

\* main.rs 193-201: the manifest value.
BuildManifest(label, mandatory, actions) ==
    [signature |-> SignaturePlaceholder,
     signed_data |-> [label |-> label, mandatory |-> mandatory, date |-> Today,
                      actions |-> WrapActions(actions)]]

\* main.rs 191-209: the manifest is built, serialized and written through
\* the manifest_file handle, whose cursor ends behind the written bytes.
WriteManifest(p) ==
    /\ st[p].pc = "write_manifest"
    /\ LET manifest == BuildManifest(st[p].label, st[p].mandatory, st[p].actions)
           json == SerializeSigned(manifest)
       IN  /\ fs' = [fs EXCEPT !.manifest = Some(json)]
           /\ st' = [st EXCEPT ![p] = [@ EXCEPT !.manifest = Some(manifest),
                                                !.manifest_pos = Len(json),
                                                !.written = Some(json),
                                                !.pc = "append_dir"]]
    /\ UNCHANGED <<src, updiff, concurrent, rt, cmp, sg, img>>

\* The name of a staged file inside the tar.
MemberName(name) == PatchDirName \o "/" \o name

TarFile(p) == fs.tars[st[p].out][1]

\* main.rs 211-212: append_dir_all("patch", out_patch_dir) appends every
\* file of the patch directory with its size and its bytes.
AppendDirAll(p) ==
    /\ st[p].pc = "append_dir"
    /\ IF fs.patch = None
       THEN /\ fs' = [fs EXCEPT !.tars[st[p].out] = Some([TarFile(p) EXCEPT !.finished = TRUE])]
            /\ st' = [st EXCEPT ![p] = Return(@, "err_append_dir")]
       ELSE LET staged == fs.patch[1]
                names  == {MemberName(n) : n \in DOMAIN staged}
                member(m) == LET n == CHOOSE x \in DOMAIN staged : MemberName(x) = m
                             IN  [size |-> Len(staged[n]), data |-> staged[n]]
                old    == TarFile(p).members
            IN  /\ fs' = [fs EXCEPT !.tars[st[p].out] =
                            Some([TarFile(p) EXCEPT !.members =
                                    [m \in DOMAIN old \cup names |->
                                        IF m \in names THEN member(m) ELSE old[m]]])]
                /\ st' = [st EXCEPT ![p].pc = "append_manifest"]
    /\ UNCHANGED <<src, updiff, concurrent, rt, cmp, sg, img>>

\* What append_file reads from an open file: the header's size is the
\* file's length (its metadata), the data is what a read from the handle's
\* current position yields.
AppendedFile(bytes, pos) ==
    [size |-> Len(bytes), data |-> SubSeq(bytes, pos + 1, Len(bytes))]

\* A run whose guard is dropped before the tar builder: the return follows
\* the append of manifest.json with the end of the archive not yet written.
AppendManifestThenDrop(p) ==
    /\ st[p].pc = "append_manifest"
    /\ LET old == TarFile(p).members
           new == AppendedFile(st[p].written[1], st[p].manifest_pos)
       IN  fs' = [fs EXCEPT !.tars[st[p].out] =
                     Some([TarFile(p) EXCEPT !.members =
                             [m \in DOMAIN old \cup {ManifestName} |->
                                 IF m = ManifestName THEN new ELSE old[m]]])]
    /\ st' = [st EXCEPT ![p] = Return(@, "ok")]
    /\ UNCHANGED <<src, updiff, concurrent, rt, cmp, sg, img>>

\* main.rs 213: append_file("manifest.json", &mut manifest_file).
AppendManifest(p) ==
    /\ st[p].pc = "append_manifest"
    /\ LET old == TarFile(p).members
           new == AppendedFile(st[p].written[1], st[p].manifest_pos)
       IN  fs' = [fs EXCEPT !.tars[st[p].out] =
                     Some([TarFile(p) EXCEPT !.members =
                             [m \in DOMAIN old \cup {ManifestName} |->
                                 IF m = ManifestName THEN new ELSE old[m]]])]
    /\ st' = [st EXCEPT ![p].pc = "finish"]
    /\ UNCHANGED <<src, updiff, concurrent, rt, cmp, sg, img>>

\* main.rs 215-216: run returns Ok; the tar builder is dropped first and
\* writes the end of the archive.
Finish(p) ==
    /\ st[p].pc = "finish"
    /\ fs' = [fs EXCEPT !.tars[st[p].out] = Some([TarFile(p) EXCEPT !.finished = TRUE])]
    /\ st' = [st EXCEPT ![p] = Return(@, "ok")]
    /\ UNCHANGED <<src, updiff, concurrent, rt, cmp, sg, img>>

\* main.rs 223-236: the guard's drop removes manifest.json and the patch
\* directory (an error of either removal is only printed).
DropGuard(p) ==
    /\ st[p].pc = "drop_guard"
    /\ fs' = [fs EXCEPT !.manifest = None, !.patch = None]
    /\ st' = [st EXCEPT ![p] = [@ EXCEPT !.guard = FALSE, !.pc = "done"]]
    /\ UNCHANGED <<src, updiff, concurrent, rt, cmp, sg, img>>

Step(p) ==
    \/ Probe(p)
    \/ CreateOutDir(p)
    \/ CreateTar(p)
    \/ ReadDirs(p)
    \/ CreatePatchDir(p)
    \/ CreateManifest(p)
    \/ Walk(p)
    \/ PlanDelete(p)
    \/ Compare(p)
    \/ CreatePlaceholder(p)
    \/ SpawnUpdiff(p)
    \/ UpdiffSucceeds(p)
    \/ UpdiffFails(p)
    \/ EndBaseLoop(p)
    \/ PlanAdd(p)
    \/ SkipNew(p)
    \/ EndNewLoop(p)
    \/ WriteManifest(p)
    \/ AppendDirAll(p)
    \/ AppendManifest(p)
    \/ Finish(p)
    \/ DropGuard(p)

Next == \E p \in Procs : Step(p)

Spec == Init /\ [][Next]_vars

\* ------------------------------------------------------------------------
\* The round trip of a manifest value through its JSON form
\* ------------------------------------------------------------------------

\* Longest top-level action list of the manifests sent through the round
\* trip.
MaxActions == 2

SeqsUpTo(S, n) == UNION {[1..k -> S] : k \in 0..n}

\* One value of every variant but Transaction, each field with its own
\* string.
Leafs ==
    {Patch("pf", "ps", "bv", "nv"), PatchAdd("pf", "ps", "d", "bv", "nv"),
     Add("s", "d"), Replace("s", "d", "nv"), UpdateBt, Delete("p"),
     Rename("s", "d"), Move("s", "d"), Copy("s", "d"), Set("k", "v"),
     OpenApp("id", "r")}

\* Transactions of leaves, and transactions that nest transactions.
FlatTransactions == {Transaction(<<>>)} \cup {Transaction(<<l>>) : l \in Leafs}
NestedTransactions ==
    {Transaction(<<Transaction(<<>>)>>),
     Transaction(<<Add("s", "d"), Transaction(<<Delete("p"), Patch("pf", "ps", "bv", "nv")>>)>>),
     Transaction(<<Transaction(<<Transaction(<<OpenApp("id", "r")>>), UpdateBt>>)>>)}

ActionValues == Leafs \cup FlatTransactions \cup NestedTransactions

ManifestValues ==
    {[label |-> "test label", mandatory |-> m, date |-> Today, actions |-> a] :
        m \in BOOLEAN, a \in SeqsUpTo(ActionValues, MaxActions)}

\* While a manifest value makes its round trip no run takes a step.
InitRoundTrip ==
    /\ src = [base |-> None, new |-> None]
    /\ fs = EmptyOutDir
    /\ updiff = [installed |-> FALSE, probes |-> 0, running |-> {},
                 calls |-> <<>>, exits |-> <<>>]
    /\ concurrent = FALSE
    /\ st = [p \in Procs |-> NewRun(DefaultLabel, FALSE, DefaultOut)]
    /\ rt \in {[pc |-> "made", value |-> Some(m), json |-> <<>>, back |-> Err] :
                 m \in ManifestValues}
    /\ cmp = CmpIdle
    /\ sg = SgIdle
    /\ img = ImgIdle

\* serde_json::to_string of a ReleaseManifest.
RtSerialize ==
    /\ rt.pc = "made"
    /\ rt' = [rt EXCEPT !.json = SerializeManifest(rt.value[1]), !.pc = "serialized"]
    /\ UNCHANGED <<src, fs, updiff, concurrent, st, cmp, sg, img>>

\* serde_json::from_reader into a ReleaseManifest.
RtDeserialize ==
    /\ rt.pc = "serialized"
    /\ rt' = [rt EXCEPT !.back = DeserializeManifest(rt.json), !.pc = "read"]
    /\ UNCHANGED <<src, fs, updiff, concurrent, st, cmp, sg, img>>

NextRoundTrip == RtSerialize \/ RtDeserialize

SpecRoundTrip == InitRoundTrip /\ [][NextRoundTrip]_vars

\* ------------------------------------------------------------------------
\* Two runs at the same time
\* ------------------------------------------------------------------------

\* The trees of the concurrent runs: the base tree holds a and perhaps b,
\* the new tree holds a (same or modified) and perhaps d/c.
RaceBase ==
    {<<FileEntry("a", <<1>>), FileEntry("b", <<1>>)>>,
     <<FileEntry("a", <<1>>)>>}
RaceNew ==
    {<<FileEntry("a", <<2>>), DirEntry("d", <<FileEntry("c", <<1>>)>>)>>,
     <<FileEntry("a", <<1>>)>>,
     <<FileEntry("a", <<2>>)>>}

\* Both runs are started on the same trees and the same, clean, output
\* directory; run 2 may start before run 1 has ended, and is given run 1's
\* tar path or another tar path of the same directory.
InitRace ==
    /\ src \in [base : {Some(t) : t \in RaceBase}, new : {Some(t) : t \in RaceNew}]
    /\ fs \in {EmptyOutDir, [EmptyOutDir EXCEPT !.dir = FALSE]}
    /\ updiff \in [installed : BOOLEAN, probes : {0}, running : {{}},
                    calls : {<<>>}, exits : {<<>>}]
    /\ concurrent = TRUE
    /\ \E out2 \in TarNames :
          st = [p \in Procs |-> NewRun(DefaultLabel, FALSE,
                                       IF p = 1 THEN DefaultOut ELSE out2)]
    /\ rt = RtIdle
    /\ cmp = CmpIdle
    /\ sg = SgIdle
    /\ img = ImgIdle

SpecRace == InitRace /\ [][Next]_vars

\* ------------------------------------------------------------------------
\* Runs over trees with nested directories and symbolic links
\* ------------------------------------------------------------------------

\* Trees with files at depth one to three, an empty directory, links to a
\* file and to a directory (at the root and inside a directory) and a link
\* without a target.
WalkBase ==
    {<<FileEntry("a", <<1>>),
       LinkTo("l", FileEntry("a", <<1>>)),
       DirEntry("d", <<FileEntry("c", <<1>>),
                       DirEntry("e", <<FileEntry("a", <<1>>), LinkEntry("l")>>)>>)>>,
     <<LinkTo("l", DirEntry("d", <<FileEntry("c", <<1>>)>>)),
       FileEntry("c", <<1>>),
       DirEntry("e", <<>>)>>,
     <<DirEntry("d", <<LinkTo("l", FileEntry("c", <<1>>)), FileEntry("c", <<2>>)>>),
       FileEntry("a", <<1, 2>>)>>,
     <<>>}
WalkNew ==
    {<<DirEntry("d", <<DirEntry("e", <<FileEntry("a", <<2>>)>>), FileEntry("c", <<1>>)>>),
       LinkTo("a", FileEntry("c", <<1>>)),
       FileEntry("l", <<1>>)>>,
     <<FileEntry("a", <<1>>),
       LinkTo("d", DirEntry("d", <<FileEntry("c", <<1>>)>>)),
       FileEntry("c", <<2>>)>>,
     <<DirEntry("d", <<DirEntry("e", <<DirEntry("e", <<>>), LinkEntry("c")>>)>>),
       FileEntry("e", <<1>>)>>,
     <<LinkEntry("l")>>}

\* A run on a clean output directory over these trees.
InitWalk ==
    /\ src \in [base : {Some(t) : t \in WalkBase}, new : {Some(t) : t \in WalkNew}]
    /\ fs = EmptyOutDir
    /\ updiff = [installed |-> TRUE, probes |-> 0, running |-> {},
                 calls |-> <<>>, exits |-> <<>>]
    /\ concurrent = FALSE
    /\ st = [p \in Procs |-> NewRun(DefaultLabel, FALSE, DefaultOut)]
    /\ rt = RtIdle
    /\ cmp = CmpIdle
    /\ sg = SgIdle
    /\ img = ImgIdle

SpecWalk == InitWalk /\ [][Next]_vars

\* ------------------------------------------------------------------------
\* A call of files_are_same, step by step
\* ------------------------------------------------------------------------

\* Longest file compared; files are sequences of the bytes 1 and 2.
MaxFileLen == 3
FileBytes == SeqsUpTo({1, 2}, MaxFileLen)

\* The lengths of the first reads of a stream that do not fill the buffer.
ShortReads == {<<>>, <<1>>, <<2>>, <<1, 1>>}

\* While a call of files_are_same is followed no run takes a step.
InitCompare ==
    /\ src = [base |-> None, new |-> None]
    /\ fs = EmptyOutDir
    /\ updiff = [installed |-> FALSE, probes |-> 0, running |-> {},
                 calls |-> <<>>, exits |-> <<>>]
    /\ concurrent = FALSE
    /\ st = [p \in Procs |-> NewRun(DefaultLabel, FALSE, DefaultOut)]
    /\ rt = RtIdle
    /\ sg = SgIdle
    /\ img = ImgIdle
    /\ cmp \in {[CmpIdle EXCEPT !.pc = "metadata", !.file1 = f1, !.file2 = f2,
                                !.rs1 = rs1, !.rs2 = rs2] :
                  f1 \in FileBytes, f2 \in FileBytes, rs1 \in ShortReads, rs2 \in ShortReads}

\* The call goes on to open the files whatever their sizes are.
CmpMetadataNoFastPath ==
    /\ cmp.pc = "metadata"
    /\ cmp' = [cmp EXCEPT !.pc = "open"]
    /\ UNCHANGED <<src, fs, updiff, concurrent, st, rt, sg, img>>

\* main.rs 260-267: the metadata of both files; different lengths return
\* false at once.
CmpMetadata ==
    /\ cmp.pc = "metadata"
    /\ cmp' = IF Len(cmp.file1) # Len(cmp.file2)
              THEN [cmp EXCEPT !.pc = "returned", !.result = Some(FALSE)]
              ELSE [cmp EXCEPT !.pc = "open"]
    /\ UNCHANGED <<src, fs, updiff, concurrent, st, rt, sg, img>>

\* main.rs 269-275: both files are opened and the buffers made.
CmpOpen ==
    /\ cmp.pc = "open"
    /\ cmp' = [cmp EXCEPT !.opened = TRUE, !.pc = "read"]
    /\ UNCHANGED <<src, fs, updiff, concurrent, st, rt, sg, img>>

\* main.rs 277-295: one turn of the loop: a read of each file, the return
\* of true at the end of the first file and of false for unequal chunks.
CmpRead ==
    /\ cmp.pc = "read"
    /\ LET bytes_read1 == ReadLen(cmp.file1, cmp.pos1, ReadLimit(cmp.rs1, cmp.k))
           bytes_read2 == ReadLen(cmp.file2, cmp.pos2, ReadLimit(cmp.rs2, cmp.k))
           chunk1 == SubSeq(cmp.file1, cmp.pos1 + 1, cmp.pos1 + bytes_read1)
           chunk2 == SubSeq(cmp.file2, cmp.pos2 + 1, cmp.pos2 + bytes_read2)
           read   == [cmp EXCEPT !.reads = @ + 2, !.k = @ + 1,
                                 !.pos1 = @ + bytes_read1, !.pos2 = @ + bytes_read2]
       IN  cmp' = IF bytes_read1 = 0
                  THEN [read EXCEPT !.pc = "returned", !.result = Some(TRUE)]
                  ELSE IF chunk1 # chunk2
                  THEN [read EXCEPT !.pc = "returned", !.result = Some(FALSE)]
                  ELSE read
    /\ UNCHANGED <<src, fs, updiff, concurrent, st, rt, sg, img>>

NextCompare == CmpMetadata \/ CmpOpen \/ CmpRead

SpecCompare == InitCompare /\ [][NextCompare]_vars

\* The call followed step by step returns what files_are_same, taken as
\* one function of the files and their reads, returns.
CmpAgrees ==
    cmp.pc = "returned" =>
        cmp.result = Some(files_are_same(cmp.file1, cmp.file2, cmp.rs1, cmp.rs2))

\* ------------------------------------------------------------------------
\* The signer (tools/signer): a version folder and the commands run on it
\* ------------------------------------------------------------------------

\* The folder the commands are given and the version cosign2 is given for
\* it (signer main.rs 144-151: the folder name without its leading v).
VersionFolder == "v1.0.0"

FirmwareVersion == "1.0.0"

\* What a file carries of cosign2's header: no header, a header with both
\* signature slots empty, one signature, two signatures.
SigStates == {"none", "header", "one", "two"}

\* The app directories a version folder may hold under apps/, and the one
\* flat app file it may hold beside them.
AppNames == {"wallet", "vault"}

GuiAppName == "gui-app-settings.elf"

\* signer main.rs 92-96.
SignatureStatus(header, first, second) ==
    [has_header |-> header, has_first_signature |-> first, has_second_signature |-> second]

\* The outcome of `cosign2 dump` on a file (signer main.rs 655-661): it
\* fails on a missing file, reports a missing header, and prints an empty
\* signature slot as zeros.
Cosign2Dump(file) ==
    IF file = None
    THEN [success |-> FALSE, no_header |-> FALSE,
          signature1_zero |-> FALSE, signature2_zero |-> FALSE]
    ELSE [success |-> TRUE, no_header |-> file[1] = "none",
          signature1_zero |-> file[1] = "header",
          signature2_zero |-> file[1] \in {"header", "one"}]

\* signer main.rs 653-709: the second slot is looked at before the first.
check_signatures(file) ==
    LET output == Cosign2Dump(file)
    IN  IF ~output.success \/ output.no_header THEN SignatureStatus(FALSE, FALSE, FALSE)
        ELSE IF output.signature2_zero THEN SignatureStatus(TRUE, TRUE, FALSE)
        ELSE IF output.signature1_zero THEN SignatureStatus(TRUE, FALSE, FALSE)
        ELSE SignatureStatus(TRUE, TRUE, TRUE)

\* A successful `cosign2 sign --in-place` fills the first empty slot of the
\* file; a file with both slots filled has none left.
Cosign2Sign(file) ==
    IF file[1] \in {"none", "header"} THEN Some("one") ELSE Some("two")

\* What a command leaves behind: its result, the number of times it ran
\* `cosign2 sign`, and whether it wrote the manifest and the tar file.
SgLast(cmd, allow_one_signature, result, signs, wrote_manifest, wrote_tar) ==
    [cmd |-> cmd, result |-> result, allow_one_signature |-> allow_one_signature,
     signs |-> signs, wrote_manifest |-> wrote_manifest, wrote_tar |-> wrote_tar]

\* The app directories of the folder: the entries of apps/ that are
\* directories.
AppDirs == IF sg.apps = None THEN {} ELSE {a \in AppNames : sg.apps[1].dirs[a] # None}

\* signer main.rs 220-225 and 387-393: the app directories that hold both
\* app.elf and manifest.json.
CompleteApps == {a \in AppDirs : sg.apps[1].dirs[a].elf # None /\ sg.apps[1].dirs[a].manifest}

\* The path of an app's binary.
ElfPath(a) == VersionFolder \o "/apps/" \o a \o "/app.elf"

\* signer main.rs 360.
TarFileName == VersionFolder \o "/KeyOS-v" \o FirmwareVersion \o ".bin"

\* signer main.rs 153-280: app.bin is signed in place, then the app.elf of
\* every complete app directory, in the order the directory is read; the
\* first signing that fails ends the command.
SgSignFiles ==
    \E app_ok \in BOOLEAN, signed \in SUBSET CompleteApps, apps_ok \in BOOLEAN :
        /\ apps_ok <=> signed = CompleteApps
        /\ sg' =
            IF ~sg.folder
            THEN [sg EXCEPT !.last = SgLast("sign-files", FALSE, "DirectoryNotFound", 0, FALSE, FALSE)]
            ELSE IF sg.app_bin = None
            THEN [sg EXCEPT !.last = SgLast("sign-files", FALSE, "FileNotFound", 0, FALSE, FALSE)]
            ELSE IF ~app_ok
            THEN [sg EXCEPT !.last = SgLast("sign-files", FALSE, "CommandFailed", 1, FALSE, FALSE)]
            ELSE [sg EXCEPT
                    !.app_bin = Cosign2Sign(sg.app_bin),
                    !.apps = IF sg.apps = None THEN None
                             ELSE Some([sg.apps[1] EXCEPT !.dirs =
                                    [a \in AppNames |->
                                        IF a \in signed
                                        THEN [@[a] EXCEPT !.elf = Cosign2Sign(@)]
                                        ELSE @[a]]]),
                    !.last = SgLast("sign-files", FALSE,
                                    IF apps_ok THEN "ok" ELSE "CommandFailed",
                                    1 + Cardinality(signed) + (IF apps_ok THEN 0 ELSE 1),
                                    FALSE, FALSE)]
        /\ UNCHANGED <<src, fs, updiff, concurrent, st, rt, cmp, img>>

\* signer main.rs 711-765: the manifest lists app.bin, which must open, and
\* the gui-app*.elf files lying in apps/ itself.
generate_manifest ==
    {"app.bin"} \cup (IF sg.apps # None /\ sg.apps[1].gui # None
                      THEN {"apps/" \o GuiAppName} ELSE {})

\* signer main.rs 367-396: app.bin, manifest.json, and app.elf and
\* manifest.json of every complete app directory.
files_to_include ==
    {VersionFolder \o "/app.bin", VersionFolder \o "/manifest.json"}
    \cup {ElfPath(a) : a \in CompleteApps}
    \cup {VersionFolder \o "/apps/" \o a \o "/manifest.json" : a \in CompleteApps}

\* signer main.rs 310-314: app.bin counts as unsigned without its second
\* signature unless one signature is allowed.
AppBinUnsigned(allow_one_signature) ==
    ~check_signatures(sg.app_bin).has_second_signature /\ ~allow_one_signature

\* signer main.rs 320-335: an app's binary counts as unsigned without its
\* second signature when one signature is allowed.
ElfUnsigned(a, allow_one_signature) ==
    allow_one_signature /\ ~check_signatures(sg.apps[1].dirs[a].elf).has_second_signature

\* signer main.rs 282-436: the signatures are checked, then the manifest is
\* generated, then tar packs the files into a new archive.
SgCreateTar ==
    \E allow_one_signature \in BOOLEAN, tar_ok \in BOOLEAN :
        LET all_signed == /\ ~AppBinUnsigned(allow_one_signature)
                          /\ \A a \in AppDirs : ~ElfUnsigned(a, allow_one_signature)
        IN  /\ sg' =
                IF ~sg.folder
                THEN [sg EXCEPT !.last = SgLast("create-tar", allow_one_signature,
                                                "DirectoryNotFound", 0, FALSE, FALSE)]
                ELSE IF ~all_signed /\ ~allow_one_signature
                THEN [sg EXCEPT !.last = SgLast("create-tar", allow_one_signature,
                                                "InsufficientSignatures", 0, FALSE, FALSE)]
                ELSE IF sg.app_bin = None
                THEN [sg EXCEPT !.last = SgLast("create-tar", allow_one_signature,
                                                "HashFailed", 0, FALSE, FALSE)]
                ELSE IF ~tar_ok
                THEN [sg EXCEPT !.manifest = Some(generate_manifest),
                                !.last = SgLast("create-tar", allow_one_signature,
                                                "CommandFailed", 0, TRUE, FALSE)]
                ELSE [sg EXCEPT !.manifest = Some(generate_manifest),
                                !.tar = Some([sig |-> "none", signs |-> 0,
                                              files |-> files_to_include]),
                                !.last = SgLast("create-tar", allow_one_signature,
                                                "ok", 0, TRUE, TRUE)]
            /\ UNCHANGED <<src, fs, updiff, concurrent, st, rt, cmp, img>>

\* The tar file's signatures as a file's.
TarSig == IF sg.tar = None THEN None ELSE Some(sg.tar[1].sig)

\* signer main.rs 495-515: the tar file is signed in place; the tool may
\* fail and leave it as it was.
SignTarFile(sign_ok) ==
    IF sign_ok
    THEN [sg EXCEPT !.tar = Some([@[1] EXCEPT !.sig = Cosign2Sign(TarSig)[1],
                                              !.signs = Min(@ + 1, 3)]),
                    !.last = SgLast("sign-tar", FALSE, "ok", 1, FALSE, FALSE)]
    ELSE [sg EXCEPT !.last = SgLast("sign-tar", FALSE, "CommandFailed", 1, FALSE, FALSE)]

\* The tar file is signed whatever signatures it has.
SgSignTarAlways ==
    /\ \E sign_ok \in BOOLEAN :
        sg' = IF sg.tar = None
              THEN [sg EXCEPT !.last = SgLast("sign-tar", FALSE, "FileNotFound", 0, FALSE, FALSE)]
              ELSE SignTarFile(sign_ok)
    /\ UNCHANGED <<src, fs, updiff, concurrent, st, rt, cmp, img>>

\* signer main.rs 438-527: a tar file reported to have two signatures is
\* left alone; any other is handed to the signing tool once.
SgSignTar ==
    /\ \E sign_ok \in BOOLEAN :
        LET signature_status == check_signatures(TarSig)
        IN  sg' = IF sg.tar = None
                  THEN [sg EXCEPT !.last = SgLast("sign-tar", FALSE, "FileNotFound", 0, FALSE, FALSE)]
                  ELSE IF /\ signature_status.has_header
                          /\ signature_status.has_first_signature
                          /\ signature_status.has_second_signature
                  THEN [sg EXCEPT !.last = SgLast("sign-tar", FALSE, "ok", 0, FALSE, FALSE)]
                  ELSE SignTarFile(sign_ok)
    /\ UNCHANGED <<src, fs, updiff, concurrent, st, rt, cmp, img>>

\* signer main.rs 584-597: the app files validate looks at are the
\* gui-app*.elf files lying in apps/ itself.
ValidatedApps == IF sg.apps # None /\ sg.apps[1].gui # None THEN {sg.apps[1].gui} ELSE {}

\* signer main.rs 529-651.
SgValidate ==
    /\ LET all_valid ==
               /\ sg.app_bin # None
               /\ check_signatures(sg.app_bin).has_second_signature
               /\ sg.manifest # None
               /\ sg.apps # None
               /\ \A file \in ValidatedApps : check_signatures(file).has_second_signature
               /\ sg.tar # None
               /\ check_signatures(TarSig).has_second_signature
       IN  sg' = IF ~sg.folder
                 THEN [sg EXCEPT !.last = SgLast("validate", FALSE, "DirectoryNotFound", 0, FALSE, FALSE)]
                 ELSE IF all_valid
                 THEN [sg EXCEPT !.last = SgLast("validate", FALSE, "ok", 0, FALSE, FALSE)]
                 ELSE [sg EXCEPT !.last = SgLast("validate", FALSE, "Validation failed", 0, FALSE, FALSE)]
    /\ UNCHANGED <<src, fs, updiff, concurrent, st, rt, cmp, img>>

\* What an app directory may hold.
AppDirStates ==
    {None} \cup [elf : {None, Some("none"), Some("one"), Some("two")}, manifest : BOOLEAN]

\* What apps/ may be: missing, or a directory of app directories and
\* perhaps a flat app file.
AppsStates ==
    {None} \cup {Some([dirs |-> dirs, gui |-> gui]) :
                    dirs \in [AppNames -> AppDirStates],
                    gui \in {None, Some("one"), Some("two")}}

\* The tar files a folder may hold from earlier commands, with the number
\* of signatures they were given.
TarStates ==
    {None} \cup {Some([sig |-> s, signs |-> IF s = "one" THEN 1 ELSE IF s = "two" THEN 2 ELSE 0,
                       files |-> {VersionFolder \o "/app.bin", VersionFolder \o "/manifest.json"}]) :
                    s \in SigStates}

\* Any version folder; no run of the release generator and no comparison
\* goes on beside the signer.
InitSigner ==
    /\ src = [base |-> None, new |-> None]
    /\ fs = EmptyOutDir
    /\ updiff = [installed |-> FALSE, probes |-> 0, running |-> {},
                 calls |-> <<>>, exits |-> <<>>]
    /\ concurrent = FALSE
    /\ st = [p \in Procs |-> NewRun(DefaultLabel, FALSE, DefaultOut)]
    /\ rt = RtIdle
    /\ cmp = CmpIdle
    /\ img = ImgIdle
    /\ sg \in {[SgIdle EXCEPT !.folder = TRUE, !.app_bin = app_bin, !.manifest = manifest,
                              !.apps = apps, !.tar = tar] :
                 app_bin \in {None, Some("none"), Some("one"), Some("two")},
                 manifest \in {None, Some({"app.bin"})},
                 apps \in AppsStates, tar \in TarStates}
           \cup {SgIdle}

NextSigner == SgSignFiles \/ SgCreateTar \/ SgSignTar \/ SgValidate

SpecSigner == InitSigner /\ [][NextSigner]_vars

\* ------------------------------------------------------------------------
\* The image builder (tools/image-builder): the partitions of a disk image
\* ------------------------------------------------------------------------

\* image-builder main.rs 60.
SECTOR_SIZE == 512

\* A u64 count of bytes, kept as whole sectors and the bytes beyond them:
\* the counts of a 64 GiB device are beyond the checker's integers, its
\* sector numbers are not.
Bytes(sec, off) == [sec |-> sec + (off \div SECTOR_SIZE), off |-> off % SECTOR_SIZE]

BytesPlus(x, y) == Bytes(x.sec + y.sec, x.off + y.off)

BytesMinus(x, y) == Bytes(x.sec - y.sec - 1, x.off - y.off + SECTOR_SIZE)

BytesTimes(n, x) == Bytes(n * x.sec, n * x.off)

BytesLess(x, y) == x.sec < y.sec \/ (x.sec = y.sec /\ x.off < y.off)

\* A byte count divided by SECTOR_SIZE.
SectorsOf(x) == x.sec

\* A value cast to or computed in u32: its low 32 bits, taken as two halves
\* of 16 bits.
AsU32(n) == (n % 65536) + 65536 * ((n \div 65536) % 65536)

\* image-builder main.rs 53-55.
KIB == Bytes(0, 1024)

MIB == BytesTimes(1024, KIB)

GIB == BytesTimes(1024, MIB)

\* image-builder main.rs 61-63.
BOOT_PARTITION_START_SECTOR == 1

BOOT_PARTITION_SIZE_BYTES == BytesMinus(BytesTimes(32, MIB), Bytes(0, SECTOR_SIZE))

BOOT_PARTITION_SIZE_SECTORS == AsU32(SectorsOf(BOOT_PARTITION_SIZE_BYTES))

\* image-builder main.rs 65-68; 0xd90000 is 14221312.
SYSTEM_PARTITION_START_SECTOR ==
    AsU32(BOOT_PARTITION_START_SECTOR + BOOT_PARTITION_SIZE_SECTORS)

SYSTEM_PARTITION_SIZE_BYTES == BytesMinus(BytesTimes(10, GIB), Bytes(0, 14221312))

SYSTEM_PARTITION_SIZE_SECTORS == AsU32(SectorsOf(SYSTEM_PARTITION_SIZE_BYTES))

\* image-builder main.rs 71-75; 0x500000 is 5242880.
TOTAL_FLASH_BLOCKS == SectorsOf(BytesTimes(64, GIB))

USER_PARTITION_SIZE_BYTES == BytesMinus(BytesTimes(45, GIB), Bytes(0, 5242880))

USER_PARTITION_SIZE_SECTORS == AsU32(SectorsOf(USER_PARTITION_SIZE_BYTES))

USER_PARTITION_START_SECTOR ==
    AsU32(AsU32(TOTAL_FLASH_BLOCKS) - AsU32(SectorsOf(USER_PARTITION_SIZE_BYTES)))

\* image-builder main.rs 136-144: the sector of an empty partition table.
init_mbr == [partition_idx \in 0..3 |-> None]

\* image-builder main.rs 146-168: one entry of the table is set.
update_mbr(mbr, is_bootable, partition_idx, start_sector, last_sector) ==
    [mbr EXCEPT ![partition_idx] = Some([is_bootable |-> is_bootable,
                                         start_sector |-> start_sector,
                                         last_sector |-> last_sector])]

\* image-builder main.rs 178-197: the last sector of the partition, the
\* bounds of the slice of the image given to the formatter and to the
\* filesystem, and the sectors the volume is formatted with.
format_partition(start_sector, sectors) ==
    [last_sector   |-> AsU32(start_sector + sectors - 1),
     start_offset  |-> Bytes(start_sector, 0),
     end_offset    |-> BytesPlus(Bytes(AsU32(start_sector + sectors), 0), Bytes(0, 1)),
     total_sectors |-> sectors]

\* image-builder main.rs 104-134 and 321: the three images must be there.
ImgCheckImagesExist ==
    /\ img.pc = "check"
    /\ img' = IF img.folder[1].boot_bin /\ img.folder[1].app_bin /\ img.folder[1].recovery_bin
              THEN [img EXCEPT !.pc = "open"]
              ELSE [img EXCEPT !.pc = "done", !.result = "FileNotFound"]
    /\ UNCHANGED <<src, fs, updiff, concurrent, st, rt, cmp, sg>>

\* image-builder main.rs 324-332: the output is created or truncated and
\* the empty partition table written.
ImgInitMbr ==
    /\ img.pc = "open"
    /\ img' = [img EXCEPT !.pc = "boot",
                          !.image = Some([mbr |-> init_mbr,
                                          slices |-> [partition_idx \in 0..1 |-> None],
                                          files |-> [partition_idx \in 0..1 |-> {}]])]
    /\ UNCHANGED <<src, fs, updiff, concurrent, st, rt, cmp, sg>>

\* The image after format_partition (main.rs 170-209) and the copies that
\* follow it.
Formatted(is_bootable, partition_idx, start_sector, sectors, files) ==
    LET f == format_partition(start_sector, sectors)
    IN  Some([mbr    |-> update_mbr(img.image[1].mbr, is_bootable, partition_idx,
                                    start_sector, f.last_sector),
              slices |-> [img.image[1].slices EXCEPT ![partition_idx] =
                              Some([start_offset |-> f.start_offset,
                                    end_offset |-> f.end_offset,
                                    total_sectors |-> f.total_sectors])],
              files  |-> [img.image[1].files EXCEPT ![partition_idx] = files]])

\* image-builder main.rs 211-240.
ImgCreateBootPartition ==
    /\ img.pc = "boot"
    /\ img' = [img EXCEPT !.pc = "system",
                          !.image = Formatted(TRUE, 0, BOOT_PARTITION_START_SECTOR,
                                              BOOT_PARTITION_SIZE_SECTORS,
                                              {"boot.bin", "recovery.bin"})]
    /\ UNCHANGED <<src, fs, updiff, concurrent, st, rt, cmp, sg>>

\* image-builder main.rs 261-288: apps/ and, of each of its directories,
\* the app.elf and manifest.json that are there.
BundledApps ==
    IF img.folder[1].apps = None THEN {}
    ELSE LET apps == img.folder[1].apps[1]
         IN  {"apps"}
             \cup {"apps/" \o a : a \in {b \in AppNames : apps[b] # None}}
             \cup {"apps/" \o a \o "/app.elf" : a \in {b \in AppNames : apps[b] # None /\ apps[b].elf}}
             \cup {"apps/" \o a \o "/manifest.json" :
                        a \in {b \in AppNames : apps[b] # None /\ apps[b].manifest}}

\* image-builder main.rs 242-292.
ImgCreateSystemPartition ==
    /\ img.pc = "system"
    /\ img' = [img EXCEPT !.pc = "user",
                          !.image = Formatted(FALSE, 1, SYSTEM_PARTITION_START_SECTOR,
                                              SYSTEM_PARTITION_SIZE_SECTORS,
                                              {"app.bin"} \cup BundledApps)]
    /\ UNCHANGED <<src, fs, updiff, concurrent, st, rt, cmp, sg>>

\* image-builder main.rs 294-308 and 339-346: the user partition is an
\* entry of the table only.
ImgCreateUserPartition ==
    /\ img.pc = "user"
    /\ LET first_sector == USER_PARTITION_START_SECTOR
           last_sector  == AsU32(first_sector + USER_PARTITION_SIZE_SECTORS - 1)
       IN  img' = [img EXCEPT !.pc = "done", !.result = "ok",
                              !.image = Some([@[1] EXCEPT !.mbr =
                                    update_mbr(@, FALSE, 2, first_sector, last_sector)])]
    /\ UNCHANGED <<src, fs, updiff, concurrent, st, rt, cmp, sg>>

\* The version folders the builder is run on.
ImgFolders ==
    [boot_bin : BOOLEAN, app_bin : BOOLEAN, recovery_bin : BOOLEAN,
     apps : {None} \cup {Some(apps) :
                apps \in [AppNames -> {None} \cup [elf : BOOLEAN, manifest : BOOLEAN]]}]

\* An image left at the output path by an earlier build.
OldImage ==
    Some([mbr |-> init_mbr, slices |-> [partition_idx \in 0..1 |-> None],
          files |-> [partition_idx \in 0..1 |-> {}]])

\* create-image on any version folder, with or without an older image at
\* the output path; nothing else runs.
InitImage ==
    /\ src = [base |-> None, new |-> None]
    /\ fs = EmptyOutDir
    /\ updiff = [installed |-> FALSE, probes |-> 0, running |-> {},
                 calls |-> <<>>, exits |-> <<>>]
    /\ concurrent = FALSE
    /\ st = [p \in Procs |-> NewRun(DefaultLabel, FALSE, DefaultOut)]
    /\ rt = RtIdle
    /\ cmp = CmpIdle
    /\ sg = SgIdle
    /\ img \in {[ImgIdle EXCEPT !.pc = "check", !.folder = Some(folder), !.image = image] :
                    folder \in ImgFolders, image \in {None, OldImage}}

NextImage ==
    \/ ImgCheckImagesExist
    \/ ImgInitMbr
    \/ ImgCreateBootPartition
    \/ ImgCreateSystemPartition
    \/ ImgCreateUserPartition

SpecImage == InitImage /\ [][NextImage]_vars

\* ------------------------------------------------------------------------
\* Properties of the planned actions
\* ------------------------------------------------------------------------

\* Both loops of the run are over: its action list is complete.
Planned(p) ==
    \/ st[p].pc \in {"write_manifest", "append_dir", "append_manifest", "finish"}
    \/ st[p].result = "ok"

\* The path an emitted action is about.
ActionPath(a) ==
    IF a.variant = "Delete" THEN a.path
    ELSE IF a.variant = "Patch" THEN a.patch_file
    ELSE IF a.variant = "Add" THEN a.dest
    ELSE ""

BaseSet(p) == Range(st[p].base_src_files)
NewSet(p) == Range(st[p].new_src_files)

\* The positions of the run's actions of a variant about a file.
Emitted(p, variant, file) ==
    {k \in DOMAIN st[p].actions :
        /\ st[p].actions[k].variant = variant
        /\ ActionPath(st[p].actions[k]) = PathToStr(file)}

\* A file the run left without an action because both trees hold it with
\* the same bytes.
Unchanged(p, file) ==
    /\ \A k \in DOMAIN st[p].actions : ActionPath(st[p].actions[k]) # PathToStr(file)
    /\ file \in BaseSet(p) \cap NewSet(p)
    /\ BaseBytes(file) = NewBytes(file)

ClassesOf(p, file) ==
    {v \in {"Delete", "Patch", "Add"} : Emitted(p, v, file) # {}}
    \cup (IF Unchanged(p, file) THEN {"unchanged"} ELSE {})

\* C1: once a run has planned its actions, every path of the union of the
\* two walked path sets is in exactly one of the classes deleted, patched,
\* added and unchanged, no path has two actions, and every action is about
\* a path of the union.
C1_Partition ==
    \A p \in Procs : Planned(p) =>
        /\ \A file \in BaseSet(p) \cup NewSet(p) :
              /\ Cardinality(ClassesOf(p, file)) = 1
              /\ Cardinality({k \in DOMAIN st[p].actions :
                                ActionPath(st[p].actions[k]) = PathToStr(file)}) <= 1
        /\ \A k \in DOMAIN st[p].actions :
              \E file \in BaseSet(p) \cup NewSet(p) :
                  ActionPath(st[p].actions[k]) = PathToStr(file)

\* A run planned a Delete, a Patch and an Add, for three different files.
C1_Witness ==
    \E p \in Procs :
        /\ Planned(p)
        /\ \E f, g, h \in BaseSet(p) \cup NewSet(p) :
              /\ Emitted(p, "Delete", f) # {}
              /\ Emitted(p, "Patch", g) # {}
              /\ Emitted(p, "Add", h) # {}

\* C2: the planned list holds Delete{path} exactly for the files of the
\* base tree that the new tree lacks and Add{source, dest}, with source =
\* dest = path, exactly for the files of the new tree that the base tree
\* lacks; a file of both trees has neither.
C2_DeleteAdd ==
    \A p \in Procs : Planned(p) =>
        LET A == st[p].actions
        IN  /\ \A f \in BaseSet(p) \cup NewSet(p) :
                  /\ (Emitted(p, "Delete", f) # {}) <=> (f \in BaseSet(p) \ NewSet(p))
                  /\ (Emitted(p, "Add", f) # {}) <=> (f \in NewSet(p) \ BaseSet(p))
            /\ \A k \in DOMAIN A :
                  /\ A[k].variant = "Delete" =>
                        \E f \in BaseSet(p) \ NewSet(p) : A[k].path = PathToStr(f)
                  /\ A[k].variant = "Add" =>
                        \E f \in NewSet(p) \ BaseSet(p) :
                            A[k].source = PathToStr(f) /\ A[k].dest = PathToStr(f)

\* Base {a, b} against new {a, d/c} with a unchanged: Delete b, Add d/c.
C2_Witness ==
    \E p \in Procs :
        /\ Planned(p)
        /\ st[p].actions = <<Delete("b"), Add("d/c", "d/c")>>
        /\ <<"a">> \in BaseSet(p) \cap NewSet(p)

Rank(a) == IF a.variant = "Delete" THEN 1 ELSE IF a.variant = "Patch" THEN 2 ELSE 3

\* The position of a path in a walked list.
IndexOf(files, str) == CHOOSE k \in DOMAIN files : PathToStr(files[k]) = str

\* C4 as claimed: in the planned list every Delete precedes every Patch and
\* every Patch precedes every Add.
C4_GroupOrder ==
    \A p \in Procs : Planned(p) =>
        \A i, j \in DOMAIN st[p].actions :
            i < j => Rank(st[p].actions[i]) <= Rank(st[p].actions[j])

\* C4 as amended: every Delete and every Patch precedes every Add; Deletes
\* and Patches stand together in the order the base tree's walk enumerated
\* their files, and Adds in the order of the new tree's walk.
C4_AddsLast ==
    \A p \in Procs :
        LET A == st[p].actions
        IN  \A i, j \in DOMAIN A : i < j =>
                /\ A[i].variant = "Add" => A[j].variant = "Add"
                /\ (A[i].variant # "Add" /\ A[j].variant # "Add") =>
                      IndexOf(st[p].base_src_files, ActionPath(A[i]))
                          < IndexOf(st[p].base_src_files, ActionPath(A[j]))
                /\ (A[i].variant = "Add" /\ A[j].variant = "Add") =>
                      IndexOf(st[p].new_src_files, ActionPath(A[i]))
                          < IndexOf(st[p].new_src_files, ActionPath(A[j]))

\* A run planned a Patch, then a Delete, then an Add.
C4_Witness ==
    \E p \in Procs :
        /\ Planned(p)
        /\ Len(st[p].actions) = 3
        /\ st[p].actions[1].variant = "Patch"
        /\ st[p].actions[2].variant = "Delete"
        /\ st[p].actions[3].variant = "Add"

\* C5: the manifest a run builds and writes has a top-level action list of
\* exactly one element, a Transaction, whose actions are only Patch, Add
\* and Delete.
C5_SingleTransaction ==
    \A p \in Procs : st[p].manifest # None =>
        LET acts == st[p].manifest[1].signed_data.actions
        IN  /\ Len(acts) = 1
            /\ acts[1].variant = "Transaction"
            /\ \A k \in DOMAIN acts[1].actions :
                  acts[1].actions[k].variant \in {"Patch", "Add", "Delete"}

\* A manifest was written whose Transaction holds a Delete, a Patch and an
\* Add.
C5_Witness ==
    \E p \in Procs :
        /\ st[p].written # None
        /\ st[p].manifest # None
        /\ {st[p].manifest[1].signed_data.actions[1].actions[k].variant :
               k \in DOMAIN st[p].manifest[1].signed_data.actions[1].actions}
             = {"Patch", "Add", "Delete"}

\* ------------------------------------------------------------------------
\* Properties of the manifest and of the output directory
\* ------------------------------------------------------------------------

\* The two trees are readable and hold the same relative paths with the
\* same bytes.
IdenticalTrees ==
    /\ src.base # None
    /\ src.new # None
    /\ LET B == Range(RelativeFiles(BaseRoot, src.base[1]))
           N == Range(RelativeFiles(NewRoot, src.new[1]))
       IN  B = N /\ \A f \in B : BaseBytes(f) = NewBytes(f)

\* When the run started, neither its tar nor manifest.json nor the patch
\* directory existed.
CleanStart(p) ==
    /\ st[p].fs0.tars[st[p].out] = None
    /\ st[p].fs0.manifest = None
    /\ st[p].fs0.patch = None

\* C6 as claimed: a run over identical trees (updiff installed, nothing in
\* the way in the output directory) ends Ok without a diff invocation, its
\* manifest holds one empty Transaction, and the tar's manifest.json member
\* holds that manifest as written.
C6_EmptyDiff ==
    \A p \in Procs :
        (st[p].pc = "done" /\ IdenticalTrees /\ updiff.installed /\ CleanStart(p)) =>
            /\ st[p].result = "ok"
            /\ \A c \in DOMAIN updiff.calls : updiff.calls[c].proc # p
            /\ st[p].manifest # None
            /\ st[p].manifest[1].signed_data.actions = <<Transaction(<<>>)>>
            /\ fs.tars[st[p].out] # None
            /\ ManifestName \in DOMAIN TarFile(p).members
            /\ TarFile(p).members[ManifestName] =
                  [size |-> Len(st[p].written[1]), data |-> st[p].written[1]]

\* C7 as claimed: what a run wrote to manifest.json reads back through the
\* ReleaseManifest schema, with the placeholder signature, the run's label
\* and its mandatory flag.
C7_ReadBack ==
    \A p \in Procs : st[p].written # None =>
        LET r == DeserializeManifest(st[p].written[1])
        IN  /\ r.ok
            /\ "signature" \in DOMAIN r.val
            /\ r.val.signature = SignaturePlaceholder
            /\ r.val.label = st[p].label
            /\ r.val.mandatory = st[p].mandatory

\* C8: a ReleaseManifest serialized to JSON and deserialized again is the
\* value that was serialized, whatever Action variants it holds, nested
\* Transactions included.
C8_RoundTrip ==
    rt.pc = "read" => (rt.back.ok /\ rt.back.val = rt.value[1])

\* A manifest made the round trip that holds a Transaction nested in a
\* Transaction beside a leaf action.
C8_Witness ==
    /\ rt.pc = "read"
    /\ rt.back.ok
    /\ \E k, n \in DOMAIN rt.value[1].actions :
          /\ rt.value[1].actions[k].variant = "PatchAdd"
          /\ rt.value[1].actions[n].variant = "Transaction"
          /\ \E j \in DOMAIN rt.value[1].actions[n].actions :
                rt.value[1].actions[n].actions[j].variant = "Transaction"

\* The run's tar existed when the run started.
TarExisted(p) == st[p].pc # "start" /\ st[p].fs0.tars[st[p].out] # None

\* C9: a run whose tar existed when it started never changes the output
\* directory (the tar, manifest.json and the patch directory stay as they
\* were) and ends with the "already exists" error (with the "updiff not
\* found" error of the earlier probe if updiff is not installed); so a
\* second run after a successful first one fails and leaves its output.
C9_ExistingTarUntouched ==
    \A p \in Procs : TarExisted(p) =>
        /\ fs = st[p].fs0
        /\ st[p].result # "ok"
        /\ st[p].pc = "done" =>
              st[p].result = IF updiff.installed THEN "err_tar_exists"
                             ELSE "err_updiff_not_found"

\* Run 1 ended Ok and run 2, the same command again, ended with the
\* "already exists" error.
C9_Witness ==
    /\ st[1].result = "ok"
    /\ st[1].pc = "done"
    /\ st[2].pc = "done"
    /\ st[2].result = "err_tar_exists"
    /\ fs.tars[DefaultOut] # None
    /\ fs.tars[DefaultOut][1].finished

\* C10 as claimed: a run that found its tar, manifest.json or the patch
\* directory in place when it started (updiff installed) fails and the
\* output directory stays, at every step, as it was.
C10_NoMutation ==
    (/\ st[1].pc # "start"
     /\ st[2].pc = "start"
     /\ updiff.installed
     /\ ~CleanStart(1)) =>
        /\ fs = st[1].fs0
        /\ st[1].result # "ok"

\* ------------------------------------------------------------------------
\* Properties of the exit paths
\* ------------------------------------------------------------------------

\* The results a run can end with once its cleanup guard is constructed.
GuardedResults == {"ok", "err_patch_file", "err_append_dir", "exit_updiff_failed"}

\* Run 1 has ended and run 2 has not started.
FirstRunOver == st[1].pc = "done" /\ st[2].pc = "start"

\* C11 as claimed: when a run that constructed its cleanup guard has ended,
\* whatever its exit path (Ok, a returned error, or the exit after a
\* non-zero updiff status), manifest.json and the patch directory are gone.
C11_GuardOnEveryExit ==
    (FirstRunOver /\ st[1].result \in GuardedResults) =>
        /\ fs.manifest = None
        /\ fs.patch = None

\* C12 as claimed: a run started on a clean output directory whose base or
\* new directory cannot be read fails and leaves neither its tar nor
\* manifest.json nor the patch directory behind.
C12_NoPartialOutput ==
    (/\ FirstRunOver
     /\ updiff.installed
     /\ CleanStart(1)
     /\ src.base = None \/ src.new = None) =>
        /\ st[1].result \in {"err_read_base", "err_read_new"}
        /\ fs.tars[st[1].out] = None
        /\ fs.manifest = None
        /\ fs.patch = None

\* C13 as claimed: after a run ended Ok, the manifest.json member of its
\* tar records the size of the serialized manifest and holds its bytes.
C13_ManifestMember ==
    \A p \in Procs : (st[p].pc = "done" /\ st[p].result = "ok") =>
        /\ ManifestName \in DOMAIN TarFile(p).members
        /\ TarFile(p).members[ManifestName].size = Len(st[p].written[1])
        /\ TarFile(p).members[ManifestName].data = st[p].written[1]

\* The files a run staged: those it planned a Patch or an Add for.
StagedFiles(p) ==
    {f \in BaseSet(p) \cup NewSet(p) :
        Emitted(p, "Patch", f) \cup Emitted(p, "Add", f) # {}}

\* C14: after a run ended Ok, the members of its tar below patch/ are
\* exactly the paths with a Patch or an Add (none for a Delete or an
\* unchanged path); an Add's member holds the new tree's file and a Patch's
\* member what updiff wrote to the patch path.
C14_PatchSubtree ==
    \A p \in Procs : (st[p].pc = "done" /\ st[p].result = "ok") =>
        LET members == TarFile(p).members
        IN  /\ DOMAIN members \ {ManifestName} =
                  {MemberName(PathToStr(f)) : f \in StagedFiles(p)}
            /\ \A f \in StagedFiles(p) :
                  LET m == members[MemberName(PathToStr(f))]
                  IN  /\ m.size = Len(m.data)
                      /\ Emitted(p, "Add", f) # {} => m.data = NewBytes(f)
                      /\ Emitted(p, "Patch", f) # {} =>
                            m.data = UpdiffOutput(BaseBytes(f), NewBytes(f))

\* A run ended Ok that planned a Delete, a Patch and an Add; its tar holds
\* the two staged files and nothing for the deleted one.
C14_Witness ==
    /\ st[1].pc = "done"
    /\ st[1].result = "ok"
    /\ {st[1].actions[k].variant : k \in DOMAIN st[1].actions} = {"Delete", "Patch", "Add"}
    /\ Cardinality(DOMAIN TarFile(1).members \ {ManifestName}) = 2

\* The diff invocations a run started and those that have exited.
CallsOf(p) == {c \in DOMAIN updiff.calls : updiff.calls[c].proc = p}
ExitsOf(p) == {e \in DOMAIN updiff.exits : updiff.exits[e].proc = p}

\* C15: once updiff has exited non-zero for a file, the run that started it
\* has ended with the failure status at that file: it started no further
\* diff, its loop went to no further file, it planned no Patch for the
\* file and built no manifest, manifest.json is still empty and its tar has
\* no member.
C15_AbortOnDiffFailure ==
    \A k \in DOMAIN updiff.exits : updiff.exits[k].status # 0 =>
        LET p == updiff.exits[k].proc
            file == updiff.exits[k].file
        IN  /\ st[p].pc = "done"
            /\ st[p].result = "exit_updiff_failed"
            /\ \A e \in ExitsOf(p) : e <= k
            /\ Cardinality(CallsOf(p)) = Cardinality(ExitsOf(p))
            /\ base_file(p) = file
            /\ Emitted(p, "Patch", file) = {}
            /\ st[p].manifest = None
            /\ st[p].written = None
            /\ fs.manifest = Some(<<>>)
            /\ DOMAIN TarFile(p).members = {}

\* updiff exited non-zero for the second modified file of a run: a Patch
\* was planned before and a base file was still to come.
C15_Witness ==
    \E k \in DOMAIN updiff.exits :
        /\ updiff.exits[k].status # 0
        /\ LET p == updiff.exits[k].proc
           IN  /\ st[p].pc = "done"
               /\ \E a \in DOMAIN st[p].actions : st[p].actions[a].variant = "Patch"
               /\ st[p].i < Len(st[p].base_src_files)

\* ------------------------------------------------------------------------
\* Properties of two runs at the same time
\* ------------------------------------------------------------------------

\* The run created its tar: it is past the existence check of main.rs 73.
Passed(p) ==
    /\ st[p].pc \notin {"start", "create_out_dir", "create_tar"}
    /\ st[p].result \notin {"err_updiff_not_found", "err_tar_exists"}

\* A step of a run that has not created its tar leaves every tar,
\* manifest.json and the patch directory as they are.
LoserKeepsOff(q) ==
    (st'[q] # st[q] /\ ~Passed(q)' ) =>
        /\ fs'.tars = fs.tars
        /\ fs'.manifest = fs.manifest
        /\ fs'.patch = fs.patch

\* Of the two runs at most one has created the tar, and a run that has
\* ended beside one that created it ended with the "already exists" error.
OneWinner ==
    /\ ~(Passed(1) /\ Passed(2))
    /\ \A p, q \in Procs :
          (Passed(p) /\ q # p /\ st[q].pc = "done") => st[q].result = "err_tar_exists"

\* C16: of two concurrent runs with the same tar path, after every step at
\* most one has created the tar and the other, once ended, has ended with
\* the "already exists" error; and no step of a run that did not create
\* the tar touches the tar, manifest.json or the patch directory.
C16_OneWinner ==
    [][st[1].out = st[2].out => (OneWinner' /\ \A q \in Procs : LoserKeepsOff(q))]_vars

\* Run 1 lost the race and ended with "already exists" while run 2, which
\* created the tar, is waiting for updiff.
C16_Witness ==
    /\ st[1].out = st[2].out
    /\ st[1].pc = "done"
    /\ st[1].result = "err_tar_exists"
    /\ st[2].pc = "await"
    /\ fs.patch # None

\* C17 as claimed: of two concurrent runs with different tar paths in one
\* clean directory, with updiff installed and never failing, each ends as
\* it does alone: Ok, its tar finished and holding its staged files and
\* manifest.json.
C17_NoInterference ==
    \A p \in Procs :
        (/\ st[1].out # st[2].out
         /\ st[p].pc = "done"
         /\ updiff.installed
         /\ \A e \in DOMAIN updiff.exits : updiff.exits[e].status = 0) =>
            /\ st[p].result = "ok"
            /\ fs.tars[st[p].out] # None
            /\ TarFile(p).finished
            /\ DOMAIN TarFile(p).members =
                  {ManifestName} \cup {MemberName(PathToStr(f)) : f \in StagedFiles(p)}

MaxDepth == 3
WalkNames == {"a", "c", "d", "e", "l"}

\* Every relative path of up to MaxDepth names.
WalkPaths == UNION {[1..n -> WalkNames] : n \in 1..MaxDepth}

\* The relative paths below a root at which a regular file is reached
\* through directories only.
RegularFiles(tree) == {rel \in WalkPaths : ReadFile(tree, rel) # None}

\* The run has walked both trees.
Walked(p) ==
    st[p].pc \notin {"start", "create_out_dir", "create_tar", "read_dirs",
                     "create_patch_dir", "create_manifest", "walk"}
    /\ st[p].result \notin {"err_updiff_not_found", "err_tar_exists", "err_read_base",
                            "err_read_new", "err_patch_dir", "panic_manifest_exists"}

NoRepeats(files) == Cardinality(Range(files)) = Len(files)

\* C19: the paths a run walked are, for each root, exactly the relative
\* paths of the regular files reachable through real directories, each
\* once: no link, nothing below a link, no directory; and every file
\* handed to updiff and every path of an action is one of these paths.
C19_WalkRegularFiles ==
    \A p \in Procs : Walked(p) =>
        /\ Range(st[p].base_src_files) = RegularFiles(src.base[1])
        /\ Range(st[p].new_src_files) = RegularFiles(src.new[1])
        /\ NoRepeats(st[p].base_src_files)
        /\ NoRepeats(st[p].new_src_files)
        /\ \A c \in CallsOf(p) :
              updiff.calls[c].file \in RegularFiles(src.base[1]) \cap RegularFiles(src.new[1])
        /\ \A k \in DOMAIN st[p].actions :
              ActionPath(st[p].actions[k]) \in
                  {PathToStr(f) : f \in RegularFiles(src.base[1]) \cup RegularFiles(src.new[1])}

\* A run walked a base tree that holds a link to a file, a directory with
\* a link without target in it and a file three levels down, and planned a
\* Patch for that file.
C19_Witness ==
    /\ Walked(1)
    /\ \E e \in Range(src.base[1]) :
          e.kind = "symlink" /\ e.entries # <<>> /\ e.entries[1].kind = "file"
    /\ <<"d", "e", "a">> \in Range(st[1].base_src_files)
    /\ \E k \in DOMAIN st[1].actions :
          st[1].actions[k] = PatchAction(<<"d", "e", "a">>)

\* ------------------------------------------------------------------------
\* Properties of files_are_same
\* ------------------------------------------------------------------------

\* C20: a call of files_are_same on files of different sizes never opens a
\* file and never reads, and when it has returned it returned false.
C20_SizeFastPath ==
    (cmp.pc # "idle" /\ Len(cmp.file1) # Len(cmp.file2)) =>
        /\ cmp.pc \in {"metadata", "returned"}
        /\ ~cmp.opened
        /\ cmp.reads = 0
        /\ cmp.pc = "returned" => cmp.result = Some(FALSE)

\* A call returned for a file and a longer file that starts with the same
\* bytes.
C20_Witness ==
    /\ cmp.pc = "returned"
    /\ cmp.result = Some(FALSE)
    /\ cmp.file1 # <<>>
    /\ Len(cmp.file1) < Len(cmp.file2)
    /\ SubSeq(cmp.file2, 1, Len(cmp.file1)) = cmp.file1

\* C21 as claimed: a call of files_are_same that has returned returned true
\* if and only if the two files hold the same bytes, however the reads of
\* the two streams split the data.
C21_SameIffIdentical ==
    cmp.pc = "returned" => cmp.result = Some(cmp.file1 = cmp.file2)

\* ------------------------------------------------------------------------
\* Properties of the order of a run's steps
\* ------------------------------------------------------------------------

\* C24 as claimed: while a run that started on a clean output directory has
\* not written its manifest, no file exists at its tar path.
C24_TarCreatedLate ==
    (/\ st[1].pc # "start"
     /\ st[2].pc = "start"
     /\ CleanStart(1)
     /\ st[1].written = None) =>
        fs.tars[st[1].out] = None

\* While the guard of a run that has not failed is alive, manifest.json and
\* the patch directory exist.
GuardedPathsKept(p) ==
    (st[p].guard /\ st[p].result \in {"running", "ok"}) =>
        /\ fs.manifest # None
        /\ fs.patch # None

\* The run's tar is complete: every staged file and manifest.json are
\* appended and the end of the archive is written.
ArchiveWritten(p) ==
    /\ fs.tars[st[p].out] # None
    /\ TarFile(p).finished
    /\ DOMAIN TarFile(p).members =
          {ManifestName} \cup {MemberName(PathToStr(f)) : f \in StagedFiles(p)}

\* C25: after every step, manifest.json and the patch directory of a run
\* that has not failed exist as long as its guard is alive, and the step
\* that drops the guard of a run that ended Ok is taken with the tar
\* complete.
C25_GuardAfterArchive ==
    [][\A p \in Procs :
          /\ GuardedPathsKept(p)'
          /\ (st[p].guard /\ ~st'[p].guard /\ st[p].result = "ok") => ArchiveWritten(p)]_vars

\* The guard of a run that ended Ok is about to be dropped: the tar is
\* complete and holds a staged file, manifest.json and the patch directory
\* are still there.
C25_Witness ==
    /\ st[1].pc = "drop_guard"
    /\ st[1].result = "ok"
    /\ ArchiveWritten(1)
    /\ StagedFiles(1) # {}
    /\ fs.manifest # None
    /\ fs.patch # None

\* The files of both trees that a run has found to differ so far: the
\* files before its position in the base loop, all of them once the loop
\* is over.
DifferingSoFar(p) ==
    {st[p].base_src_files[k] : k \in
        {j \in DOMAIN st[p].base_src_files :
            /\ (st[p].pc \in {"loop_base", "placeholder", "spawn", "await"} /\
                st[p].result = "running") => j < st[p].i
            /\ st[p].result = "exit_updiff_failed" => j < st[p].i
            /\ st[p].base_src_files[j] \in NewSet(p)
            /\ BaseBytes(st[p].base_src_files[j]) # NewBytes(st[p].base_src_files[j])}}

\* The diffs of a run: one call per differing file passed, for no other
\* file, and at most one that has not exited, which is the one for the file
\* the run waits at.
DiffsInOrder(p) ==
    LET calls == {updiff.calls[c].file : c \in CallsOf(p)}
        open  == Cardinality(CallsOf(p)) - Cardinality(ExitsOf(p))
    IN  /\ Cardinality(calls) = Cardinality(CallsOf(p))
        /\ open \in {0, 1}
        /\ open = 1 <=> p \in updiff.running
        /\ p \in updiff.running <=> st[p].pc = "await"
        /\ IF st[p].pc = "await" \/ st[p].result = "exit_updiff_failed"
           THEN calls = DifferingSoFar(p) \cup {base_file(p)}
           ELSE calls = DifferingSoFar(p)
        /\ \A f \in calls : f \in BaseSet(p) \cap NewSet(p) /\ BaseBytes(f) # NewBytes(f)

AllTwoSignatures ==
    /\ sg.app_bin = Some("two")
    /\ \A a \in AppDirs : sg.apps[1].dirs[a].elf \in {None, Some("two")}

\* C22: create-tar without --allow-one-signature writes manifest.json and
\* the tar file only when app.bin and the app.elf of every app directory
\* have two signatures; when one of them lacks its second signature the
\* command fails with InsufficientSignatures and writes neither file.
C22_TarNeedsTwoSignatures ==
    (sg.folder /\ sg.last.cmd = "create-tar" /\ ~sg.last.allow_one_signature) =>
        /\ (sg.last.wrote_manifest \/ sg.last.wrote_tar) => AllTwoSignatures
        /\ ~AllTwoSignatures =>
              /\ sg.last.result = "InsufficientSignatures"
              /\ ~sg.last.wrote_manifest
              /\ ~sg.last.wrote_tar

\* C23: validate succeeds only on a folder where app.bin, manifest.json,
\* apps/ and the tar file exist and app.bin, the tar file and the app.elf
\* of every app directory that sign-files signs and create-tar packs carry
\* two signatures.
C23_ValidateAllSigned ==
    (sg.last.cmd = "validate" /\ sg.last.result = "ok") =>
        /\ sg.app_bin = Some("two")
        /\ sg.manifest # None
        /\ sg.apps # None
        /\ sg.tar # None
        /\ sg.tar[1].sig = "two"
        /\ \A a \in CompleteApps : sg.apps[1].dirs[a].elf = Some("two")

\* C27: every sign-tar on an existing tar file runs the signing tool once
\* when the file has no header, no signature or one signature, and not at
\* all when it has two, in which case it returns Ok and leaves the file as
\* it is; and no tar file is ever signed more than twice.
C27_SignTarOnce ==
    [][(sg'.last.cmd = "sign-tar" /\ sg.tar # None) =>
          /\ sg.tar[1].sig \in {"none", "header", "one"} => sg'.last.signs = 1
          /\ sg.tar[1].sig = "two" =>
                /\ sg'.last.signs = 0
                /\ sg'.last.result = "ok"
                /\ sg'.tar = sg.tar
          /\ sg'.tar[1].signs <= 2]_vars

\* A tar file that create-tar packed with an app's binary, unsigned, was
\* signed twice, and the sign-tar after that left it alone.
C27_Witness ==
    /\ sg.last.cmd = "sign-tar"
    /\ sg.last.result = "ok"
    /\ sg.last.signs = 0
    /\ sg.tar # None
    /\ sg.tar[1].sig = "two"
    /\ sg.tar[1].signs = 2
    /\ \E a \in AppNames : ElfPath(a) \in sg.tar[1].files

\* ------------------------------------------------------------------------
\* Properties of the image builder
\* ------------------------------------------------------------------------

\* The partitions as the constants give them: first sector and sectors.
Partitions ==
    [partition_idx \in 0..2 |->
        IF partition_idx = 0
        THEN [start_sector |-> BOOT_PARTITION_START_SECTOR, sectors |-> BOOT_PARTITION_SIZE_SECTORS]
        ELSE IF partition_idx = 1
        THEN [start_sector |-> SYSTEM_PARTITION_START_SECTOR, sectors |-> SYSTEM_PARTITION_SIZE_SECTORS]
        ELSE [start_sector |-> USER_PARTITION_START_SECTOR, sectors |-> USER_PARTITION_SIZE_SECTORS]]

\* The partitions keep off the MBR sector and off each other, and no sum
\* of their sector numbers leaves u32.
PartitionsDisjoint ==
    /\ \A i \in 0..2 :
          /\ Partitions[i].start_sector >= 1
          /\ Partitions[i].sectors >= 1
          /\ AsU32(Partitions[i].start_sector + Partitions[i].sectors) =
                Partitions[i].start_sector + Partitions[i].sectors
    /\ \A i, j \in 0..2 :
          i < j => Partitions[i].start_sector + Partitions[i].sectors <= Partitions[j].start_sector
    /\ Partitions[2].start_sector + Partitions[2].sectors <= TOTAL_FLASH_BLOCKS

\* A slice of the image holds a byte of the sectors [first, first + n).
Overlaps(slice, first, n) ==
    /\ BytesLess(slice.start_offset, Bytes(first + n, 0))
    /\ BytesLess(Bytes(first, 0), slice.end_offset)

\* C28: the slice of the image that format_partition hands to the FAT
\* formatter and filesystem is the partition's own bytes, from
\* start_sector * 512 up to (start_sector + sectors) * 512: it holds no
\* byte of the MBR sector and none of another partition; and the sector
\* ranges of the boot, system and user partitions are pairwise disjoint
\* and computed without u32 overflow.
C28_PartitionWindow ==
    /\ PartitionsDisjoint
    /\ img.image # None =>
          \A i \in 0..1 :
              img.image[1].slices[i] # None =>
                 LET slice == img.image[1].slices[i][1]
                 IN  /\ slice.start_offset = Bytes(Partitions[i].start_sector, 0)
                     /\ slice.end_offset =
                            Bytes(Partitions[i].start_sector + Partitions[i].sectors, 0)
                     /\ ~Overlaps(slice, 0, 1)
                     /\ \A j \in 0..2 \ {i} :
                            ~Overlaps(slice, Partitions[j].start_sector, Partitions[j].sectors)

====
